---- MODULE Spec2Model ----
(***************************************************************************)
(* Model of the Safe transaction history service: the internal-tx indexer  *)
(* (history/indexers/internal_tx_indexer.py), the decoder                  *)
(* (history/indexers/tx_decoder.py) and the state-machine processor        *)
(* (history/indexers/tx_processor.py) working on the shared ledger.        *)
(*                                                                         *)
(* The chain is the input: a sequence of traces, cut into Ethereum         *)
(* transactions.  The position of a trace in the chain is its              *)
(* (block_number, tx_index, trace_address) order and the id of its         *)
(* InternalTx row.  Every Ethereum transaction is alone in its block, so   *)
(* the block number of a transaction is its index.                         *)
(***************************************************************************)
EXTENDS Integers, Sequences, FiniteSets, TLC

\* ------------------------------------------------------------------ bounds
MaxTraces == 4
NumTx == 2
MaxApiCalls == 1
MaxBlock == 3
MaxEvents == 3
MaxPosts == 3

\* ------------------------------------------------------------ null values
NULL_ADDRESS == "0x0"
NoAddress == "None"
NoTx == 0
NoHash == [safe |-> "None", payload |-> "None", base_gas |-> 0, nonce |-> 0, version |-> "None"]
NoSignature == [signer |-> "None", hash |-> NoHash]
NoSignatures == [kind |-> "null", sigs |-> <<>>]

\* ------------------------------------------------- library (gnosis-py) part
\* SafeTx(...).safe_tx_hash: the EIP-712 digest, injective in what it hashes.
\* The version enters the digest through the type hash (dataGas / baseGas).
SafeTxHash(safe, payload, base_gas, nonce, version) ==
    [safe |-> safe, payload |-> payload, base_gas |-> base_gas, nonce |-> nonce, version |-> version]

\* A signature is made by a signer over a hash.  Recovering it against the
\* hash it was made over yields the signer, against another hash it yields
\* an address unrelated to the signer.
Sig(signer, hash) == [signer |-> signer, hash |-> hash]
Unrelated(signer) == "x" \o signer
RecoverOwner(sig, hash) == IF sig.hash = hash THEN sig.signer ELSE Unrelated(sig.signer)

\* --------------------------------------------------------------- the traces
NoArgs ==
    [owners |-> <<>>, threshold |-> 0, owner |-> NoAddress, oldOwner |-> NoAddress,
     newOwner |-> NoAddress, masterCopy |-> NoAddress, hashToApprove |-> NoHash,
     payload |-> "None", gasKey |-> "None", gas |-> 0, signatures |-> NoSignatures]

\* A trace that carries a call of a Safe function.  data "ok" decodes to
\* (fn, args); log is the txHash of the ExecutionFailure event the call left
\* in the receipt of its transaction (NoHash: none).
Call(from, to, fn, args, log) ==
    [from |-> from, to |-> to, call_type |-> "DELEGATECALL", data |-> "ok",
     fn |-> fn, args |-> args, log |-> log]
\* A trace without call data (a plain value transfer from an account).
Plain(from, to) ==
    [from |-> from, to |-> to, call_type |-> "CALL", data |-> "empty",
     fn |-> "None", args |-> NoArgs, log |-> NoHash]

\* A call whose selector is in no ABI, and a call of a known selector whose
\* arguments do not parse.
\* A trace that creates a contract: no call, its data is the init code.
Creation(from) ==
    [from |-> from, to |-> "None", call_type |-> "CREATE", data |-> "ok",
     fn |-> "None", args |-> NoArgs, log |-> NoHash]
NoSelector(from, to) ==
    [from |-> from, to |-> to, call_type |-> "CALL", data |-> "noselector",
     fn |-> "None", args |-> NoArgs, log |-> NoHash]
BadArguments(from, to) ==
    [from |-> from, to |-> to, call_type |-> "CALL", data |-> "badarguments",
     fn |-> "None", args |-> NoArgs, log |-> NoHash]

\* A call with less than 4 bytes of data, and a call of a known selector
\* whose arguments are cut short.
ShortData(from, to) ==
    [from |-> from, to |-> to, call_type |-> "CALL", data |-> "short",
     fn |-> "None", args |-> NoArgs, log |-> NoHash]
Truncated(from, to) ==
    [from |-> from, to |-> to, call_type |-> "CALL", data |-> "truncated",
     fn |-> "None", args |-> NoArgs, log |-> NoHash]

Setup(safe, mc, owners, threshold) ==
    Call(safe, mc, "setup", [NoArgs EXCEPT !.owners = owners, !.threshold = threshold], NoHash)
AddOwner(safe, owner, threshold) ==
    Call(safe, "mc1", "addOwnerWithThreshold", [NoArgs EXCEPT !.owner = owner, !.threshold = threshold], NoHash)
RemoveOwner(safe, owner, threshold) ==
    Call(safe, "mc1", "removeOwner", [NoArgs EXCEPT !.owner = owner, !.threshold = threshold], NoHash)
SwapOwner(safe, old, new) ==
    Call(safe, "mc1", "swapOwner", [NoArgs EXCEPT !.oldOwner = old, !.newOwner = new], NoHash)
RemoveOwnerWithThreshold(safe, owner, threshold) ==
    Call(safe, "mc1", "removeOwnerWithThreshold", [NoArgs EXCEPT !.owner = owner, !.threshold = threshold], NoHash)
ChangeThreshold(safe, threshold) ==
    Call(safe, "mc1", "changeThreshold", [NoArgs EXCEPT !.threshold = threshold], NoHash)
ChangeMasterCopy(safe, mc) ==
    Call(safe, "mc1", "changeMasterCopy", [NoArgs EXCEPT !.masterCopy = mc], NoHash)
ApproveHash(safe, hash) ==
    Call(safe, "mc1", "approveHash", [NoArgs EXCEPT !.hashToApprove = hash], NoHash)
\* execTransaction of payload, signed by signers over the hash for signedNonce;
\* gasKey is the name of the gas argument the ABI version decoded.
VersionOf(gasKey) == IF gasKey = "baseGas" THEN "1.0.0" ELSE "0.0.1"
Exec(safe, payload, gasKey, signers, signedNonce, log) ==
    Call(safe, "mc1", "execTransaction",
         [NoArgs EXCEPT !.payload = payload, !.gasKey = gasKey,
            !.signatures = [kind |-> "ok",
                            sigs |-> [i \in 1..Len(signers) |->
                                        Sig(signers[i], SafeTxHash(safe, payload, 0, signedNonce, VersionOf(gasKey)))]]],
         log)
\* execTransaction whose gas argument (baseGas or dataGas) is gas
ExecGas(safe, payload, gasKey, gas, signers, signedNonce) ==
    Call(safe, "mc1", "execTransaction",
         [NoArgs EXCEPT !.payload = payload, !.gasKey = gasKey, !.gas = gas,
            !.signatures = [kind |-> "ok",
                            sigs |-> [i \in 1..Len(signers) |->
                                        Sig(signers[i], SafeTxHash(safe, payload, gas, signedNonce, VersionOf(gasKey)))]]],
         NoHash)
ExecMalformed(safe, payload) ==
    Call(safe, "mc1", "execTransaction",
         [NoArgs EXCEPT !.payload = payload, !.gasKey = "baseGas",
            !.signatures = [kind |-> "malformed", sigs |-> <<>>]], NoHash)
ModuleExec(safe) == Call(safe, "mc1", "execTransactionFromModule", NoArgs, NoHash)
Other(safe) == Call(safe, "mc1", "enableModule", NoArgs, NoHash)

\* ---------------------------------------------------------------- the chain
SeqsUpTo(S, n) == UNION {[1..k -> S] : k \in 0..n}
\* The ways to cut k traces into at most NumTx consecutive transactions.
Cuts(k) ==
    IF k = 0 THEN {<<>>}
    ELSE {f \in [1..k -> 1..NumTx] :
            /\ f[1] = 1
            /\ \A i \in 1..(k - 1) : f[i + 1] \in {f[i], f[i] + 1}}
\* The chains that start with prefix and go on with traces of menu, MaxTraces
\* traces at most.
Chains(prefix, menu) ==
    UNION {{[traces |-> prefix \o t, txOf |-> f] : f \in Cuts(Len(prefix \o t))} :
            t \in SeqsUpTo(menu, MaxTraces - Len(prefix))}

VARIABLES
    chain,          \* the chain data: traces and the transaction of each
    ethereum_txs,   \* EthereumTx rows (tx ids)
    internal_txs,   \* InternalTx rows (trace positions)
    decoded,        \* InternalTxDecoded rows, by internal_tx
    safe_contracts, \* SafeContract rows
    safe_statuses,  \* SafeStatus rows
    multisig_txs,   \* MultisigTransaction rows
    confirmations,  \* MultisigConfirmation rows
    api_calls,      \* number of API submissions so far
    cursors,        \* tx_block_number and events_block_number of the monitored address
    device_safes,   \* addresses of the SafeContract rows of the FirebaseDevice
    lastCall        \* the last operation and how it ended

vars == <<chain, ethereum_txs, internal_txs, decoded, safe_contracts, safe_statuses,
          multisig_txs, confirmations, api_calls, cursors, device_safes, lastCall>>

Traces == chain.traces
TxOf(i) == chain.txOf[i]
TxIds == {TxOf(i) : i \in 1..Len(Traces)}
TracesOfTx(tx) == {i \in 1..Len(Traces) : TxOf(i) = tx}
BlockOf(tx) == tx
\* get_transaction_receipt(tx_hash): the txHash arguments of the failure events in it
Receipt(tx) == {Traces[i].log : i \in TracesOfTx(tx)} \ {NoHash}

\* ------------------------------------------------------------ the decoder
\* TxDecoder.decode_transaction on the data of a trace: the decoded call, or
\* the exception it raises.
SelectorMessage == "Could not find any function with matching selector"
\* contract.decode_function_input(data) of the library: what it raises.  The
\* selector is looked up first (a ValueError with SelectorMessage when it is
\* in no ABI, also when the data has less than 4 bytes); then the arguments
\* are parsed, which fails with a ValueError of another message or with an
\* exception of the ABI codec that is not a ValueError.
decode_function_input(data) ==
    CASE data = "ok" -> [raises |-> "None", message |-> ""]
      [] data \in {"noselector", "short", "empty"} -> [raises |-> "ValueError", message |-> SelectorMessage]
      [] data = "truncated" -> [raises |-> "DecodingError", message |-> "InsufficientDataBytes"]
      [] OTHER -> [raises |-> "ValueError", message |-> "bad arguments"]
\* TxDecoder.decode_transaction: only a ValueError is caught and classified by
\* its message, any other exception leaves the decoder as it is.
decode_transaction(trace) ==
    LET r == decode_function_input(trace.data)
    IN  CASE r.raises = "None" ->
                [error |-> "None", function_name |-> trace.fn, arguments |-> trace.args]
          [] r.raises = "ValueError" /\ r.message = SelectorMessage ->
                [error |-> "CannotDecode", function_name |-> "None", arguments |-> NoArgs]
          [] r.raises = "ValueError" ->
                [error |-> "UnexpectedProblemDecoding", function_name |-> "None", arguments |-> NoArgs]
          [] OTHER ->
                [error |-> r.raises, function_name |-> "None", arguments |-> NoArgs]

\* ------------------------------------------------------ the internal-tx indexer
\* InternalTx.can_be_decoded
can_be_decoded(trace) == trace.call_type \in {"CALL", "DELEGATECALL"} /\ trace.data # "empty"

NewDecoded(i, dec) ==
    [internal_tx |-> i, function_name |-> dec.function_name, arguments |-> dec.arguments,
     processed |-> FALSE]

\* InternalTxDecoded.objects.get_or_create(internal_tx=..., defaults=...)
DecodedKeep(rows, i, dec) == rows
DecodedGetOrCreate(rows, i, dec) ==
    IF i \in DOMAIN rows THEN rows ELSE rows @@ (i :> NewDecoded(i, dec))

\* InternalTxIndexer._process_trace on the trace at position i; st is the
\* ledger inside the indexer's transaction.
process_trace_again(st, i) ==
    LET stored == [st EXCEPT !.internal_txs = @ \cup {i}]
        dec == decode_transaction(Traces[i])
    IN  IF st.raised THEN st
        ELSE IF can_be_decoded(Traces[i])
        THEN CASE dec.error = "None" ->
                    [stored EXCEPT !.decoded = [j \in (DOMAIN @) \cup {i} |->
                                                    IF j = i THEN NewDecoded(i, dec) ELSE @[j]]]
               [] dec.error = "CannotDecode" -> stored
               [] OTHER -> [stored EXCEPT !.raised = TRUE]
        ELSE stored
process_trace_fatal(st, i) ==
    LET created == i \notin st.internal_txs
        stored == [st EXCEPT !.internal_txs = @ \cup {i}]
        dec == decode_transaction(Traces[i])
    IN  IF st.raised THEN st
        ELSE IF can_be_decoded(Traces[i]) /\ created
        THEN CASE dec.error = "None" ->
                    [stored EXCEPT !.decoded = DecodedGetOrCreate(@, i, dec)]
               [] OTHER -> [stored EXCEPT !.raised = TRUE]
        ELSE stored
process_trace(st, i) ==
    LET created == i \notin st.internal_txs
        stored == [st EXCEPT !.internal_txs = @ \cup {i}]
        dec == decode_transaction(Traces[i])
    IN  IF st.raised THEN st
        ELSE IF can_be_decoded(Traces[i]) /\ created
        THEN CASE dec.error = "None" ->
                    [stored EXCEPT !.decoded = DecodedGetOrCreate(@, i, dec)]
               [] dec.error = "CannotDecode" -> stored
               [] OTHER -> [stored EXCEPT !.raised = TRUE]
        ELSE stored

RECURSIVE process_traces(_, _)
process_traces(st, todo) ==
    IF todo = {} THEN st
    ELSE LET i == CHOOSE j \in todo : \A k \in todo : j <= k
         IN  process_traces(process_trace(st, i), todo \ {i})

\* InternalTxIndexer.process_element(tx_hash), under transaction.atomic:
\* what it raises undoes all its writes.
process_element_partial(st, tx, rpc_ok) ==
    IF ~rpc_ok THEN [st EXCEPT !.raised = TRUE]
    ELSE process_traces([st EXCEPT !.ethereum_txs = @ \cup {tx}], TracesOfTx(tx))
process_element(st, tx, rpc_ok) ==
    LET start == [st EXCEPT !.ethereum_txs = @ \cup {tx}]
        done == process_traces(start, TracesOfTx(tx))
    IN  IF ~rpc_ok THEN [st EXCEPT !.raised = TRUE]
        ELSE IF done.raised THEN [st EXCEPT !.raised = TRUE]
        ELSE done

IndexerLedger ==
    [ethereum_txs |-> ethereum_txs, internal_txs |-> internal_txs, decoded |-> decoded,
     raised |-> FALSE]

Outcome(op, id, outcome, at, ret, deleted) ==
    [op |-> op, id |-> id, outcome |-> outcome, at |-> at, ret |-> ret, deleted |-> deleted]

\* One run of the indexer on one transaction of the chain.  Transactions are
\* indexed in block order; one that is already indexed can be indexed again.
ProcessElement(tx, rpc_ok) ==
    /\ tx \in TxIds
    /\ (tx > 1) => ((tx - 1) \in ethereum_txs)
    /\ LET r == process_element(IndexerLedger, tx, rpc_ok)
       IN  /\ ethereum_txs' = r.ethereum_txs
           /\ internal_txs' = r.internal_txs
           /\ decoded' = r.decoded
           /\ lastCall' = Outcome("index", tx, IF r.raised THEN "raised" ELSE "ok",
                                  IF ~rpc_ok THEN "trace_transaction"
                                  ELSE IF r.raised THEN "decode_transaction" ELSE "", TRUE, 0)
    /\ UNCHANGED <<chain, safe_contracts, safe_statuses, multisig_txs, confirmations, api_calls, cursors, device_safes>>

\* ------------------------------------------------------------ ledger queries
NoStatus ==
    [internal_tx |-> 0, address |-> NoAddress, owners |-> <<>>, threshold |-> 0, nonce |-> 0,
     master_copy |-> NoAddress]

\* SafeStatus.objects.last_for_address: the row of the address with the greatest
\* (block_number, tx_index, trace_address), NoStatus when there is none.
last_for_any(statuses, address) ==
    IF statuses = {} THEN NoStatus
    ELSE CHOOSE s \in statuses : \A o \in statuses : o.internal_tx <= s.internal_tx
last_for_address(statuses, address) ==
    LET mine == {s \in statuses : s.address = address}
    IN  IF mine = {} THEN NoStatus
        ELSE CHOOSE s \in mine : \A o \in mine : o.internal_tx <= s.internal_tx

\* SafeStatus rows are keyed by the InternalTx that caused them: inserting a
\* second row for the same InternalTx is an IntegrityError.
StatusKeyTaken(statuses, internal_tx) == \E s \in statuses : s.internal_tx = internal_tx

\* SafeStatus.store_new(internal_tx): the (changed) snapshot stored as a new row
store_new_update(statuses, status, internal_tx) ==
    {s \in statuses : s # last_for_address(statuses, status.address)}
        \cup {[status EXCEPT !.internal_tx = internal_tx]}
store_new(statuses, status, internal_tx) ==
    statuses \cup {[status EXCEPT !.internal_tx = internal_tx]}

\* InternalTx.get_previous_trace: the position of the trace before this one in
\* the same transaction, 0 when there is none.
get_previous_trace(i) == IF i > 1 /\ TxOf(i - 1) = TxOf(i) THEN i - 1 ELSE 0

\* InternalTxDecoded.set_processed
set_processed(rows, i) == [rows EXCEPT ![i].processed = TRUE]

\* Python's list.remove: the first occurrence leaves the list
RECURSIVE ListRemove(_, _)
ListRemove(list, x) ==
    IF list = <<>> THEN <<>>
    ELSE IF Head(list) = x THEN Tail(list)
    ELSE <<Head(list)>> \o ListRemove(Tail(list), x)
Contains(list, x) == \E i \in 1..Len(list) : list[i] = x

\* The signal handlers that bind confirmations and transactions of one hash
\* when either row is created.
bind_nothing(confs, hash) == confs
bind_confirmations_of_tx(confs, hash) ==
    {IF c.multisig_transaction_hash = hash /\ c.multisig_transaction = NoHash
        THEN [c EXCEPT !.multisig_transaction = hash] ELSE c : c \in confs}
bind_confirmation(c, txs) ==
    IF c.multisig_transaction = NoHash /\ \E t \in txs : t.safe_tx_hash = c.multisig_transaction_hash
    THEN [c EXCEPT !.multisig_transaction = c.multisig_transaction_hash] ELSE c

\* Deleting a MultisigTransaction deletes the confirmations bound to it.
delete_cascade(confs, hashes) == {c \in confs : c.multisig_transaction \notin hashes}

\* MultisigConfirmation.objects.get_or_create(multisig_transaction_hash, owner, defaults)
ConfirmationCreate(confs, txs, hash, owner, ethereum_tx, signature, link) ==
    confs \cup {bind_confirmation(
            [multisig_transaction_hash |-> hash, owner |-> owner, ethereum_tx |-> ethereum_tx,
             signature |-> signature, multisig_transaction |-> link], txs)}
ConfirmationGetOrCreate(confs, txs, hash, owner, ethereum_tx, signature, link) ==
    IF \E c \in confs : c.multisig_transaction_hash = hash /\ c.owner = owner
    THEN confs
    ELSE confs \cup {bind_confirmation(
            [multisig_transaction_hash |-> hash, owner |-> owner, ethereum_tx |-> ethereum_tx,
             signature |-> signature, multisig_transaction |-> link], txs)}

\* ------------------------------------------------------------ the processor
\* deleted: the number of rows the stale-row delete removed
Raise(db, at) == [db |-> db, raised |-> TRUE, at |-> at, ret |-> FALSE, deleted |-> 0]
Return(db, ret) == [db |-> db, raised |-> FALSE, at |-> "", ret |-> ret, deleted |-> 0]

\* tx_processor.py 63-75
ProcessSetupReset(db, i) ==
    LET t == Traces[i]
        status == [internal_tx |-> i, address |-> t.from,
                   owners |-> db.decoded[i].arguments.owners,
                   threshold |-> db.decoded[i].arguments.threshold,
                   nonce |-> 0, master_copy |-> t.to]
        contracts == {c \in db.contracts : c.address # t.from}
                        \cup {[address |-> t.from, ethereum_tx |-> TxOf(i),
                                erc20_block_number |-> BlockOf(TxOf(i))]}
    IN  IF StatusKeyTaken(db.statuses, i)
        THEN Raise([db EXCEPT !.contracts = contracts], "create")
        ELSE Return([db EXCEPT !.contracts = contracts, !.statuses = @ \cup {status}], TRUE)
ProcessSetupCreate(db, i) ==
    LET t == Traces[i]
        status == [internal_tx |-> i, address |-> t.from,
                   owners |-> db.decoded[i].arguments.owners,
                   threshold |-> db.decoded[i].arguments.threshold,
                   nonce |-> 0, master_copy |-> t.to]
        contracts == db.contracts \cup {[address |-> t.from, ethereum_tx |-> TxOf(i),
                                          erc20_block_number |-> BlockOf(TxOf(i))]}
    IN  IF StatusKeyTaken(db.statuses, i)
        THEN Raise([db EXCEPT !.contracts = contracts], "create")
        ELSE Return([db EXCEPT !.contracts = contracts, !.statuses = @ \cup {status}], TRUE)
ProcessSetup(db, i) ==
    LET t == Traces[i]
        contract_address == t.from
        contracts ==
            IF \E c \in db.contracts : c.address = contract_address THEN db.contracts
            ELSE db.contracts \cup {[address |-> contract_address, ethereum_tx |-> TxOf(i),
                                      erc20_block_number |-> BlockOf(TxOf(i))]}
        status == [internal_tx |-> i, address |-> contract_address,
                   owners |-> db.decoded[i].arguments.owners,
                   threshold |-> db.decoded[i].arguments.threshold,
                   nonce |-> 0, master_copy |-> t.to]
    IN  IF StatusKeyTaken(db.statuses, i)
        THEN Raise([db EXCEPT !.contracts = contracts], "create")
        ELSE Return([db EXCEPT !.contracts = contracts, !.statuses = @ \cup {status}], TRUE)

\* The end of every branch that changes the wallet: safe_status.store_new(internal_tx)
StoreNew(db, status, i) ==
    IF StatusKeyTaken(db.statuses, i) THEN Raise(db, "store_new")
    ELSE Return([db EXCEPT !.statuses = store_new(@, status, i)], TRUE)

\* tx_processor.py 76-89
OwnersAfter(function_name, owners, owner) ==
    IF function_name = "addOwnerWithThreshold" THEN Append(owners, owner)
    ELSE ListRemove(owners, owner)
ProcessOwnerStrict(db, i) ==
    LET args == db.decoded[i].arguments
        last == last_for_address(db.statuses, Traces[i].from)
    IN  IF last = NoStatus THEN Raise(db, "last_for_address")
        ELSE IF db.decoded[i].function_name # "addOwnerWithThreshold" /\ ~Contains(last.owners, args.owner)
        THEN Raise(db, "remove")
        ELSE StoreNew(db, [last EXCEPT !.threshold = args.threshold,
                                      !.owners = OwnersAfter(db.decoded[i].function_name, @, args.owner)], i)
ProcessOwner(db, i) ==
    LET args == db.decoded[i].arguments
        last == last_for_address(db.statuses, Traces[i].from)
    IN  IF last = NoStatus THEN Raise(db, "last_for_address")
        ELSE StoreNew(db, [last EXCEPT !.threshold = args.threshold,
                                      !.owners = OwnersAfter(db.decoded[i].function_name, @, args.owner)], i)

\* tx_processor.py 90-96
SwappedOwners(owners, old_owner, new_owner) == Append(ListRemove(owners, old_owner), new_owner)
ProcessSwapOwner(db, i) ==
    LET args == db.decoded[i].arguments
        last == last_for_address(db.statuses, Traces[i].from)
    IN  IF last = NoStatus THEN Raise(db, "last_for_address")
        ELSE IF ~Contains(last.owners, args.oldOwner) THEN Raise(db, "remove")
        ELSE StoreNew(db, [last EXCEPT !.owners = SwappedOwners(@, args.oldOwner, args.newOwner)], i)

\* tx_processor.py 97-100
ProcessChangeThreshold(db, i) ==
    LET last == last_for_address(db.statuses, Traces[i].from)
    IN  IF last = NoStatus THEN Raise(db, "last_for_address")
        ELSE StoreNew(db, [last EXCEPT !.threshold = db.decoded[i].arguments.threshold], i)

\* tx_processor.py 101-105
ProcessChangeMasterCopy(db, i) ==
    LET last == last_for_address(db.statuses, Traces[i].from)
    IN  IF last = NoStatus THEN Raise(db, "last_for_address")
        ELSE StoreNew(db, [last EXCEPT !.master_copy = db.decoded[i].arguments.masterCopy], i)

\* tx_processor.py 106-118
ApproveOwnerSelf(i) == Traces[i].from
ApproveOwner(i) == Traces[get_previous_trace(i)].from
ProcessApproveHash(db, i) ==
    LET hash == db.decoded[i].arguments.hashToApprove
        ethereum_tx == TxOf(i)
        owner == ApproveOwner(i)
        found == {c \in db.confs : c.multisig_transaction_hash = hash /\ c.owner = owner}
        created == found = {}
        confs == ConfirmationGetOrCreate(db.confs, db.txs, hash, owner, ethereum_tx, NoSignature, NoHash)
    IN  IF get_previous_trace(i) = 0 THEN Raise(db, "get_previous_trace")
        ELSE IF created THEN Return([db EXCEPT !.confs = confs], TRUE)
        ELSE Return([db EXCEPT !.confs =
                        {IF c \in found /\ c.ethereum_tx = NoTx
                            THEN [c EXCEPT !.ethereum_tx = ethereum_tx] ELSE c : c \in confs}], TRUE)

\* A log of the receipt that is no failure event of the Safe ABIs
Undecodable ==
    [safe |-> "undecodable", payload |-> "None", base_gas |-> 0, nonce |-> 0, version |-> "None"]
\* processReceipt(tx_receipt, errors=Discard): the txHash arguments of the
\* failure events among the logs; the other logs are discarded
processReceipt(tx_receipt) == tx_receipt \ {Undecodable}
\* SafeTxProcessor.is_failed on the receipt of the transaction
is_failed_any(tx, safe_tx_hash) == processReceipt(Receipt(tx)) # {}
is_failed(tx, safe_tx_hash) == safe_tx_hash \in processReceipt(Receipt(tx))

\* tx_processor.py 122-127: the version and the gas argument used for the hash
SafeVersion(arguments) == IF arguments.gasKey = "baseGas" THEN "1.0.0" ELSE "0.0.1"
ExecHashV1(contract_address, arguments, nonce) ==
    SafeTxHash(contract_address, arguments.payload, arguments.gas, nonce, "1.0.0")
ExecHash(contract_address, arguments, nonce) ==
    SafeTxHash(contract_address, arguments.payload, arguments.gas, nonce, SafeVersion(arguments))

\* tx_processor.py 138-144: the rows the stale-row filter selects
NoStaleRows(txs, ethereum_tx, nonce, contract_address, safe_tx_hash) == {}
StaleRowsAnySafe(txs, ethereum_tx, nonce, contract_address, safe_tx_hash) ==
    {t \in txs : /\ t.ethereum_tx = ethereum_tx
                 /\ t.nonce = nonce
                 /\ t.safe_tx_hash # safe_tx_hash}
StaleRows(txs, ethereum_tx, nonce, contract_address, safe_tx_hash) ==
    {t \in txs : /\ t.ethereum_tx = ethereum_tx
                 /\ t.nonce = nonce
                 /\ t.safe = contract_address
                 /\ t.safe_tx_hash # safe_tx_hash}

\* tx_processor.py 154-176: get_or_create of the MultisigTransaction and the
\* fill-in of a row that was there without ethereum_tx
NewMultisigTx(safe_tx_hash, contract_address, ethereum_tx, arguments, nonce, failed) ==
    [safe_tx_hash |-> safe_tx_hash, safe |-> contract_address, ethereum_tx |-> ethereum_tx,
     payload |-> arguments.payload, base_gas |-> arguments.gas, nonce |-> nonce,
     signatures |-> arguments.signatures, failed |-> IF failed THEN "true" ELSE "false",
     origin |-> "None"]
UpsertOverwrite(txs, safe_tx_hash, contract_address, ethereum_tx, arguments, nonce, failed) ==
    IF \E t \in txs : t.safe_tx_hash = safe_tx_hash
    THEN {IF t.safe_tx_hash = safe_tx_hash
            THEN [t EXCEPT !.ethereum_tx = ethereum_tx,
                           !.failed = IF failed THEN "true" ELSE "false",
                           !.signatures = arguments.signatures]
            ELSE t : t \in txs}
    ELSE txs \cup {NewMultisigTx(safe_tx_hash, contract_address, ethereum_tx, arguments, nonce, failed)}
UpsertMultisigTx(txs, safe_tx_hash, contract_address, ethereum_tx, arguments, nonce, failed) ==
    IF \E t \in txs : t.safe_tx_hash = safe_tx_hash
    THEN {IF t.safe_tx_hash = safe_tx_hash /\ t.ethereum_tx = NoTx
            THEN [t EXCEPT !.ethereum_tx = ethereum_tx,
                           !.failed = IF failed THEN "true" ELSE "false",
                           !.signatures = arguments.signatures]
            ELSE t : t \in txs}
    ELSE txs \cup {NewMultisigTx(safe_tx_hash, contract_address, ethereum_tx, arguments, nonce, failed)}

\* tx_processor.py 178-190: one turn of the loop over the parsed signatures
ConfirmSignatureSigner(confs, txs, safe_tx_hash, sig) ==
    {IF c.multisig_transaction_hash = safe_tx_hash /\ c.owner = sig.signer /\ c.signature # sig
        THEN [c EXCEPT !.signature = sig] ELSE c :
        c \in ConfirmationGetOrCreate(confs, txs, safe_tx_hash, sig.signer, NoTx, sig, safe_tx_hash)}
ConfirmSignatureKeep(confs, txs, safe_tx_hash, sig) ==
    ConfirmationGetOrCreate(confs, txs, safe_tx_hash, RecoverOwner(sig, safe_tx_hash), NoTx, sig, safe_tx_hash)
ConfirmSignature(confs, txs, safe_tx_hash, sig) ==
    LET owner == RecoverOwner(sig, safe_tx_hash)
        got == ConfirmationGetOrCreate(confs, txs, safe_tx_hash, owner, NoTx, sig, safe_tx_hash)
    IN  {IF c.multisig_transaction_hash = safe_tx_hash /\ c.owner = owner /\ c.signature # sig
            THEN [c EXCEPT !.signature = sig] ELSE c : c \in got}
RECURSIVE ConfirmSignatures(_, _, _, _)
ConfirmSignatures(confs, txs, safe_tx_hash, sigs) ==
    IF sigs = <<>> THEN confs
    ELSE ConfirmSignatures(ConfirmSignature(confs, txs, safe_tx_hash, Head(sigs)), txs,
                           safe_tx_hash, Tail(sigs))

\* tx_processor.py 192: safe_status.nonce = nonce + 1
SameNonce(nonce) == nonce
IncrementedNonce(nonce) == nonce + 1

\* tx_processor.py 119-193
ProcessExecTransaction(db, i, rpc_ok) ==
    LET contract_address == Traces[i].from
        arguments == db.decoded[i].arguments
        last == last_for_address(db.statuses, contract_address)
        nonce == last.nonce
        safe_tx_hash == ExecHash(contract_address, arguments, nonce)
        ethereum_tx == TxOf(i)
        stale == StaleRows(db.txs, ethereum_tx, nonce, contract_address, safe_tx_hash)
        db1 == [db EXCEPT !.txs = @ \ stale,
                          !.confs = delete_cascade(@, {t.safe_tx_hash : t \in stale})]
        failed == is_failed(ethereum_tx, safe_tx_hash)
        created == ~\E t \in db1.txs : t.safe_tx_hash = safe_tx_hash
        txs2 == UpsertMultisigTx(db1.txs, safe_tx_hash, contract_address, ethereum_tx, arguments,
                                 nonce, failed)
        db2 == [db1 EXCEPT !.txs = txs2,
                           !.confs = IF created THEN bind_confirmations_of_tx(@, safe_tx_hash) ELSE @]
        db3 == [db2 EXCEPT !.confs = ConfirmSignatures(@, txs2, safe_tx_hash, arguments.signatures.sigs)]
    IN  IF last = NoStatus THEN Raise(db, "last_for_address")
        ELSE IF ~rpc_ok THEN [Raise(db1, "is_failed") EXCEPT !.deleted = Cardinality(stale)]
        ELSE IF arguments.signatures.kind # "ok"
        THEN [Raise(db2, "parse_signatures") EXCEPT !.deleted = Cardinality(stale)]
        ELSE [StoreNew(db3, [last EXCEPT !.nonce = IncrementedNonce(nonce)], i) EXCEPT !.deleted = Cardinality(stale)]

\* tx_processor.py 57-198: the branch taken for the function name
DispatchAnySetup(db, i, rpc_ok) ==
    LET function_name == db.decoded[i].function_name
    IN  CASE function_name = "setup" -> ProcessSetup(db, i)
          [] function_name = "execTransactionFromModule" -> Return(db, TRUE)
          [] OTHER -> Return(db, FALSE)
Dispatch(db, i, rpc_ok) ==
    LET function_name == db.decoded[i].function_name
        contract_address == Traces[i].from
    IN  CASE function_name = "setup" /\ contract_address # NULL_ADDRESS -> ProcessSetup(db, i)
          [] function_name \in {"addOwnerWithThreshold", "removeOwner", "removeOwnerWithThreshold"} ->
                ProcessOwner(db, i)
          [] function_name = "swapOwner" -> ProcessSwapOwner(db, i)
          [] function_name = "changeThreshold" -> ProcessChangeThreshold(db, i)
          [] function_name = "changeMasterCopy" -> ProcessChangeMasterCopy(db, i)
          [] function_name = "approveHash" -> ProcessApproveHash(db, i)
          [] function_name = "execTransaction" -> ProcessExecTransaction(db, i, rpc_ok)
          [] function_name = "execTransactionFromModule" -> Return(db, TRUE)
          [] OTHER -> Return(db, FALSE)

\* tx_processor.py 199-200
FinishKeep(r, i) == r
Finish(r, i) ==
    IF r.raised THEN r ELSE [r EXCEPT !.db.decoded = set_processed(@, i)]

\* @transaction.atomic: an exception leaves the ledger as it was before the call
NotAtomic(before, r) == r
Atomic(before, r) == IF r.raised THEN [r EXCEPT !.db = before] ELSE r

\* SafeTxProcessor.process_decoded_transaction
process_decoded_transaction(db, i, rpc_ok) == Atomic(db, Finish(Dispatch(db, i, rpc_ok), i))

Ledger ==
    [contracts |-> safe_contracts, statuses |-> safe_statuses, txs |-> multisig_txs,
     confs |-> confirmations, decoded |-> decoded]

\* The queue of the processor: the invocations of one wallet are taken in chain
\* order, and one that fails stays first of its wallet.
Pending(address) == {i \in DOMAIN decoded : ~decoded[i].processed /\ Traces[i].from = address}
IsNext(i) == \A j \in Pending(Traces[i].from) : i <= j

\* One call of the processor, on the next pending invocation of a wallet or
\* again on one that is processed already.
ProcessDecoded(i, rpc_ok) ==
    /\ i \in DOMAIN decoded
    /\ (~decoded[i].processed) => IsNext(i)
    /\ LET r == process_decoded_transaction(Ledger, i, rpc_ok)
       IN  /\ safe_contracts' = r.db.contracts
           /\ safe_statuses' = r.db.statuses
           /\ multisig_txs' = r.db.txs
           /\ confirmations' = r.db.confs
           /\ decoded' = r.db.decoded
           /\ lastCall' = Outcome("process", i, IF r.raised THEN "raised" ELSE "ok", r.at, r.ret, r.deleted)
    /\ UNCHANGED <<chain, ethereum_txs, internal_txs, api_calls, cursors, device_safes>>

\* ------------------------------------------------------------------ the API
\* POST /safes/{address}/multisig-transactions: a transaction that is not
\* executed yet, with the signature of one owner or without one.  It is
\* rejected (422) when a transaction of the safe with this nonce is executed.
ApiSafes == {"s1"}
ApiPayloads == {"p1"}
ApiNonces == {0}
ApiSigners == {NoAddress, "A"}
ApiHash(safe, payload, nonce) == SafeTxHash(safe, payload, 0, nonce, "1.0.0")
ApiRejectsAnyNonce(txs, safe, nonce) == \E t \in txs : t.safe = safe /\ t.ethereum_tx # NoTx
ApiRejects(txs, safe, nonce) == \E t \in txs : t.safe = safe /\ t.nonce = nonce /\ t.ethereum_tx # NoTx
post_multisig_transaction(db, safe, payload, nonce, signer) ==
    LET hash == ApiHash(safe, payload, nonce)
        created == ~\E t \in db.txs : t.safe_tx_hash = hash
        txs == IF created
               THEN db.txs \cup {[safe_tx_hash |-> hash, safe |-> safe, ethereum_tx |-> NoTx,
                                   payload |-> payload, base_gas |-> 0, nonce |-> nonce,
                                   signatures |-> NoSignatures, failed |-> "null", origin |-> "api"]}
               ELSE db.txs
        bound == IF created THEN bind_confirmations_of_tx(db.confs, hash) ELSE db.confs
        confs == IF signer = NoAddress THEN bound
                 ELSE ConfirmationGetOrCreate(bound, txs, hash, signer, NoTx, Sig(signer, hash), hash)
    IN  [db EXCEPT !.txs = txs, !.confs = confs]

PostUpTo(limit, safe, payload, nonce, signer) ==
    /\ api_calls < limit
    /\ api_calls' = api_calls + 1
    /\ LET rejected == ApiRejects(multisig_txs, safe, nonce)
           db == IF rejected THEN Ledger
                 ELSE post_multisig_transaction(Ledger, safe, payload, nonce, signer)
       IN  /\ multisig_txs' = db.txs
           /\ confirmations' = db.confs
           /\ lastCall' = Outcome("api", 0, IF rejected THEN "rejected" ELSE "ok", "", TRUE, 0)
    /\ UNCHANGED <<chain, ethereum_txs, internal_txs, decoded, safe_contracts, safe_statuses, cursors, device_safes>>
PostMultisigTransaction(safe, payload, nonce, signer) ==
    PostUpTo(MaxApiCalls, safe, payload, nonce, signer)

\* ------------------------------------------------------------ the cursors
\* The streams of the indexers.  tx_block_number and events_block_number are
\* columns of the monitored address, erc20_block_number is a column of the
\* SafeContract of a wallet.
Streams == {"tx_block_number", "events_block_number", "erc20_block_number"}
\* The cursor of a stream for a wallet, 0 when the wallet has no SafeContract
CursorOf(contracts, monitored, stream, address) ==
    IF stream # "erc20_block_number" THEN monitored[stream]
    ELSE IF \E c \in contracts : c.address = address
    THEN (CHOOSE c \in contracts : c.address = address).erc20_block_number
    ELSE 0

\* One run of an indexer of a stream over the window from the cursor to
\* to_block.  The cursor moves to to_block + 1 in the transaction that commits
\* the data of the window; a window that fails or is cancelled leaves it.
IndexWindow(stream, address, to_block, result) ==
    /\ CursorOf(safe_contracts, cursors, stream, address) \in 1..to_block
    /\ to_block < MaxBlock
    /\ IF result # "ok" THEN UNCHANGED <<safe_contracts, cursors>>
       ELSE IF stream = "erc20_block_number"
       THEN /\ safe_contracts' = {IF c.address = address
                                     THEN [c EXCEPT !.erc20_block_number = to_block + 1]
                                     ELSE c : c \in safe_contracts}
            /\ UNCHANGED cursors
       ELSE /\ cursors' = [cursors EXCEPT ![stream] = to_block + 1]
            /\ UNCHANGED safe_contracts
    /\ lastCall' = Outcome("window", to_block, result, stream, TRUE, 0)
    /\ UNCHANGED <<chain, ethereum_txs, internal_txs, decoded, safe_statuses, multisig_txs,
                   confirmations, api_calls, device_safes>>

\* --------------------------------------------------------- the collectibles
\* CollectiblesService.get_collectibles.  The chain data it reads: the ERC-721
\* Transfer events of the safe (chain.events, in the order of the query), and
\* for every token the answer of ownerOf ("None": the call failed) and of
\* tokenURI.
Tokens == {[address |-> "nft1", tokenId |-> 1], [address |-> "nft1", tokenId |-> 2]}
TokenOwners == {"s1", "other", "None"}
TokenOf(event) == [address |-> event.address, tokenId |-> event.tokenId]
OwnerOf(token) == chain.ownerOf[token]
TokenURI(token) == IF token.tokenId = 1 THEN "uri1" ELSE "uri2"
\* ethereum_client.batch_call(queries, raise_exception=False): one answer for
\* every query, in the order of the queries
call_function(query) ==
    IF query.fn = "ownerOf" THEN OwnerOf(query.token) ELSE TokenURI(query.token)
batch_call(queries) == [k \in 1..Len(queries) |-> call_function(queries[k])]

\* collectibles_service.py 166-175: the positions of the events whose token the safe owns now
KeptAll(events, owners, safe_address) == [k \in 1..Len(events) |-> k]
Kept(events, owners, safe_address) ==
    SelectSeq([k \in 1..Len(events) |-> k], LAMBDA k : owners[k] = safe_address)

get_collectibles(safe_address) ==
    LET erc721_events == chain.events
        ownership_queries ==
            [k \in 1..Len(erc721_events) |-> [fn |-> "ownerOf", token |-> TokenOf(erc721_events[k])]]
        token_uri_queries ==
            [k \in 1..Len(erc721_events) |-> [fn |-> "tokenURI", token |-> TokenOf(erc721_events[k])]]
        owners == batch_call(ownership_queries)
        kept == Kept(erc721_events, owners, safe_address)
        filtered_events == [j \in 1..Len(kept) |-> erc721_events[kept[j]]]
        token_uris == batch_call(token_uri_queries)
    IN  [j \in 1..Len(filtered_events) |->
            [address |-> filtered_events[j].address, id |-> filtered_events[j].tokenId,
             uri |-> token_uris[j]]]

GetCollectibles(safe_address) ==
    /\ lastCall' = Outcome("get_collectibles", 0, "ok", safe_address, get_collectibles(safe_address), 0)
    /\ UNCHANGED <<chain, ethereum_txs, internal_txs, decoded, safe_contracts, safe_statuses,
                   multisig_txs, confirmations, api_calls, cursors, device_safes>>

\* ------------------------------------------------------- the notifications
\* FirebaseDeviceCreateView: the safes of the request are added to the device
\* and never removed; a safe of a request is a SafeContract of the ledger.
CreateDevice(address) ==
    /\ \E c \in safe_contracts : c.address = address
    /\ device_safes' = device_safes \cup {address}
    /\ lastCall' = Outcome("create_device", 0, "ok", address, TRUE, 0)
    /\ UNCHANGED <<chain, ethereum_txs, internal_txs, decoded, safe_contracts, safe_statuses,
                   multisig_txs, confirmations, api_calls, cursors>>

\* SafeContract.objects.get(): the only row of the table; DoesNotExist on an
\* empty table, MultipleObjectsReturned on more than one row.
objects_get(rows) ==
    IF rows = {} THEN [raises |-> "DoesNotExist", row |-> NoAddress]
    ELSE IF Cardinality(rows) > 1 THEN [raises |-> "MultipleObjectsReturned", row |-> NoAddress]
    ELSE [raises |-> "None", row |-> (CHOOSE c \in rows : TRUE).address]
\* firebase_device.safes: FirebaseDevice declares the relation under the name
\* safe, so the instance has no attribute safes.
HasAttribute(name) == name \in {"uuid", "safe", "cloud_messaging_token", "build_number", "bundle",
                               "device_type", "version"}
\* FirebaseDeviceSafeDeleteView.perform_destroy with the address of the URL
perform_destroy(safes, rows, safe_address) ==
    LET got == objects_get(rows)
    IN  IF got.raises = "DoesNotExist" THEN [safes |-> safes, outcome |-> "ok"]
        ELSE IF got.raises # "None" THEN [safes |-> safes, outcome |-> got.raises]
        ELSE IF ~HasAttribute("safes") THEN [safes |-> safes, outcome |-> "AttributeError"]
        ELSE [safes |-> safes \ {got.row}, outcome |-> "ok"]
PerformDestroy(safe_address) ==
    /\ LET r == perform_destroy(device_safes, safe_contracts, safe_address)
       IN  /\ device_safes' = r.safes
           /\ lastCall' = Outcome("perform_destroy", 0, r.outcome, safe_address, TRUE, 0)
    /\ UNCHANGED <<chain, ethereum_txs, internal_txs, decoded, safe_contracts, safe_statuses,
                   multisig_txs, confirmations, api_calls, cursors>>

\* --------------------------------------------------------- specifications
InitLedger ==
    /\ ethereum_txs = {}
    /\ internal_txs = {}
    /\ decoded = <<>>
    /\ safe_contracts = {}
    /\ safe_statuses = {}
    /\ multisig_txs = {}
    /\ confirmations = {}
    /\ api_calls = 0
    /\ cursors = [stream \in {"tx_block_number", "events_block_number"} |-> 1]
    /\ device_safes = {}
    /\ lastCall = Outcome("none", 0, "ok", "", TRUE, 0)

\* The indexer and the processor on the chain
Next ==
    \/ \E tx \in 1..NumTx, rpc_ok \in BOOLEAN : ProcessElement(tx, rpc_ok)
    \/ \E i \in 1..MaxTraces, rpc_ok \in BOOLEAN : ProcessDecoded(i, rpc_ok)

\* The indexer, the processor and the API
NextApi ==
    \/ \E tx \in 1..NumTx, rpc_ok \in BOOLEAN : ProcessElement(tx, rpc_ok)
    \/ \E i \in 1..MaxTraces, rpc_ok \in BOOLEAN : ProcessDecoded(i, rpc_ok)
    \/ \E safe \in ApiSafes, payload \in ApiPayloads, nonce \in ApiNonces, signer \in ApiSigners :
            PostMultisigTransaction(safe, payload, nonce, signer)

\* The life of one wallet: setup, executions, changes of threshold and owners.
H(payload, nonce) == SafeTxHash("s1", payload, 0, nonce, "1.0.0")
WalletSetup == Setup("s1", "mc1", <<"A", "B">>, 1)
WalletMenu ==
    {WalletSetup,
     Exec("s1", "p1", "baseGas", <<"A">>, 0, NoHash),
     Exec("s1", "p2", "baseGas", <<"A">>, 1, H("p2", 1)),
     ExecMalformed("s1", "p1"),
     SwapOwner("s1", "A", "C")}
Init == chain \in Chains(<<WalletSetup>>, WalletMenu) /\ InitLedger
Spec == Init /\ [][Next]_vars

\* Confirmations: approveHash called by owner A, executions signed by A and
\* B, and API submissions.
ConfirmMenu ==
    {WalletSetup,
     Plain("A", "s1"),
     ApproveHash("s1", H("p1", 0)),
     Exec("s1", "p1", "baseGas", <<"A", "B">>, 0, NoHash)}
InitConfirm == chain \in Chains(<<>>, ConfirmMenu) /\ InitLedger
SpecConfirm == InitConfirm /\ [][NextApi]_vars

\* Owner management on a wallet with owners A and B: D is not an owner.
OwnersMenu ==
    {RemoveOwner("s1", "D", 1),
     RemoveOwnerWithThreshold("s1", "D", 2),
     SwapOwner("s1", "D", "C"),
     ChangeThreshold("s1", 2)}
InitOwners == chain \in Chains(<<WalletSetup>>, OwnersMenu) /\ InitLedger
SpecOwners == InitOwners /\ [][Next]_vars

\* Setups of wallet s1 and of the zero address, and calls that change no wallet.
SetupMenu ==
    {WalletSetup,
     Setup(NULL_ADDRESS, "mc1", <<"A">>, 1),
     ModuleExec("s1"),
     Other("s1")}
InitSetup == chain \in Chains(<<>>, SetupMenu) /\ InitLedger
SpecSetup == InitSetup /\ [][Next]_vars

\* Executions decoded by the two ABI versions (baseGas: 1.0.0, dataGas:
\* 0.0.1), and API submissions.
VersionMenu ==
    {Exec("s1", "p1", "baseGas", <<"A">>, 0, NoHash),
     Exec("s1", "p1", "dataGas", <<"A">>, 0, NoHash)}
InitVersions == chain \in Chains(<<WalletSetup>>, VersionMenu) /\ InitLedger
SpecVersions == InitVersions /\ [][NextApi]_vars

\* Traces the decoder accepts, skips and fails on.
DecodeMenu ==
    {WalletSetup,
     NoSelector("A", "s1"),
     BadArguments("A", "s1"),
     Plain("A", "s1"),
     Creation("A")}
InitDecode == chain \in Chains(<<>>, DecodeMenu) /\ InitLedger
SpecDecode == InitDecode /\ [][Next]_vars

\* Every kind of data the decoder is called on.
DecoderMenu ==
    {WalletSetup,
     NoSelector("A", "s1"),
     ShortData("A", "s1"),
     BadArguments("A", "s1"),
     Truncated("A", "s1")}
InitDecoder == chain \in Chains(<<>>, DecoderMenu) /\ InitLedger
SpecDecoder == InitDecoder /\ [][Next]_vars

\* The indexers' windows next to setups of one wallet in two transactions.
NextCursor ==
    \/ \E tx \in 1..NumTx, rpc_ok \in BOOLEAN : ProcessElement(tx, rpc_ok)
    \/ \E i \in 1..MaxTraces, rpc_ok \in BOOLEAN : ProcessDecoded(i, rpc_ok)
    \/ \E stream \in Streams, to_block \in 1..MaxBlock, result \in {"ok", "failed", "cancelled"} :
            IndexWindow(stream, "s1", to_block, result)
CursorMenu == {WalletSetup, ChangeThreshold("s1", 2)}
InitCursor == chain \in Chains(<<WalletSetup>>, CursorMenu) /\ InitLedger
SpecCursor == InitCursor /\ [][NextCursor]_vars

\* Submissions of two payloads with nonces 0 and 1, before and after the
\* execution of payload p1 with nonce 0.
SubmittedPayloads == {"p1", "p2"}
SubmittedNonces == {0, 1}
NextPost ==
    \/ \E tx \in 1..NumTx, rpc_ok \in BOOLEAN : ProcessElement(tx, rpc_ok)
    \/ \E i \in 1..MaxTraces, rpc_ok \in BOOLEAN : ProcessDecoded(i, rpc_ok)
    \/ \E payload \in SubmittedPayloads, nonce \in SubmittedNonces, signer \in ApiSigners :
            PostUpTo(MaxPosts, "s1", payload, nonce, signer)
InitPost ==
    /\ chain \in Chains(<<WalletSetup, Exec("s1", "p1", "baseGas", <<"A">>, 0, NoHash)>>, {})
    /\ InitLedger
SpecPost == InitPost /\ [][NextPost]_vars

\* One device, the wallets s1 and s2, and requests that add a wallet to the
\* device and remove one from it.
UrlAddresses == {"s1", "s2", "s3"}
NextDevice ==
    \/ \E tx \in 1..NumTx, rpc_ok \in BOOLEAN : ProcessElement(tx, rpc_ok)
    \/ \E i \in 1..MaxTraces, rpc_ok \in BOOLEAN : ProcessDecoded(i, rpc_ok)
    \/ \E address \in UrlAddresses : CreateDevice(address)
    \/ \E address \in UrlAddresses : PerformDestroy(address)
DeviceMenu == {Setup("s2", "mc1", <<"A">>, 1), ChangeThreshold("s1", 2)}
InitDevice == chain \in Chains(<<WalletSetup>>, DeviceMenu) /\ InitLedger
SpecDevice == InitDevice /\ [][NextDevice]_vars

\* Executions that differ in the name and in the value of the gas argument.
GasMenu ==
    {ExecGas("s1", "p1", "baseGas", 5, <<"A">>, 0),
     ExecGas("s1", "p1", "dataGas", 5, <<"A">>, 1),
     ExecGas("s1", "p1", "dataGas", 7, <<"A">>, 1)}
InitGas == chain \in Chains(<<WalletSetup>>, GasMenu) /\ InitLedger
SpecGas == InitGas /\ [][Next]_vars

\* Executions with a failure event for their own hash, without one and with
\* a log that is no failure event, and API submissions of payload p1.
FailedMenu ==
    {Exec("s1", "p1", "baseGas", <<"A">>, 0, H("p1", 0)),
     Exec("s1", "p2", "baseGas", <<"A">>, 1, NoHash),
     Exec("s1", "p2", "baseGas", <<"A">>, 1, Undecodable)}
InitFailed == chain \in Chains(<<WalletSetup>>, FailedMenu) /\ InitLedger
SpecFailed == InitFailed /\ [][NextApi]_vars

\* Every owner-management function on a wallet with owners A and B.
ManageMenu ==
    {AddOwner("s1", "C", 2),
     RemoveOwner("s1", "B", 1),
     RemoveOwnerWithThreshold("s1", "A", 1),
     SwapOwner("s1", "A", "C"),
     SwapOwner("s1", "D", "C"),
     ChangeThreshold("s1", 2),
     ChangeMasterCopy("s1", "mc2")}
InitManage == chain \in Chains(<<WalletSetup>>, ManageMenu) /\ InitLedger
SpecManage == InitManage /\ [][Next]_vars

\* Two wallets, s1 and s2, with executions signed by the same owner and an
\* approveHash on s2 of a hash of s1.
TwoWalletsMenu ==
    {Setup("s2", "mc1", <<"A">>, 1),
     Exec("s1", "p1", "baseGas", <<"A">>, 0, NoHash),
     Exec("s2", "p1", "baseGas", <<"A">>, 0, NoHash),
     Plain("A", "s2"),
     ApproveHash("s2", H("p1", 0)),
     ChangeThreshold("s2", 2)}
InitTwoWallets == chain \in Chains(<<WalletSetup>>, TwoWalletsMenu) /\ InitLedger
SpecTwoWallets == InitTwoWallets /\ [][Next]_vars

\* Executions of two wallets, a second setup of s1 (after which its nonce
\* is 0 again) and API submissions of payload p1 with nonce 0.
StaleMenu ==
    {WalletSetup,
     Setup("s2", "mc1", <<"A">>, 1),
     Exec("s1", "p2", "baseGas", <<"A">>, 0, NoHash),
     Exec("s1", "p3", "baseGas", <<"A">>, 0, NoHash),
     Exec("s2", "p2", "baseGas", <<"A">>, 0, NoHash)}
InitStale == chain \in Chains(<<WalletSetup>>, StaleMenu) /\ InitLedger
SpecStale == InitStale /\ [][NextApi]_vars

\* Invocations of every function that loads the last snapshot, on s2, which
\* has no setup; s1 has one.
NoSetupMenu ==
    {AddOwner("s2", "C", 2),
     RemoveOwner("s2", "A", 1),
     RemoveOwnerWithThreshold("s2", "A", 1),
     SwapOwner("s2", "A", "C"),
     ChangeThreshold("s2", 2),
     ChangeMasterCopy("s2", "mc2"),
     Exec("s2", "p1", "baseGas", <<"A">>, 0, NoHash)}
InitNoSetup == chain \in Chains(<<WalletSetup>>, NoSetupMenu) /\ InitLedger
SpecNoSetup == InitNoSetup /\ [][Next]_vars

\* The queue of the processor under retries: every call whose RPC calls
\* succeed is made again and again, on an invocation of wallet s1 that
\* removes an absent owner, one of a function outside the table and a swap
\* of an absent owner.
ProgressMenu ==
    {RemoveOwner("s1", "D", 1),
     Other("s1"),
     SwapOwner("s1", "D", "C")}
InitProgress == chain \in Chains(<<WalletSetup>>, ProgressMenu) /\ InitLedger
SpecProgress ==
    /\ InitProgress
    /\ [][Next]_vars
    /\ \A i \in 1..MaxTraces : WF_vars(ProcessDecoded(i, TRUE))

\* The collectibles of safe s1 for every history of at most MaxEvents events
\* of two tokens and every answer of ownerOf.
NextCollectibles == GetCollectibles("s1")
InitCollectibles ==
    /\ chain \in {[traces |-> <<>>, txOf |-> <<>>, events |-> e, ownerOf |-> o] :
                    e \in SeqsUpTo(Tokens, MaxEvents), o \in [Tokens -> TokenOwners]}
    /\ InitLedger
SpecCollectibles == InitCollectibles /\ [][NextCollectibles]_vars

\* ------------------------------------------------------------------ claims
FunctionOf(i) == decoded[i].function_name
AddressOf(i) == Traces[i].from
StatusesOf(address) == {s \in safe_statuses : s.address = address}
\* S1 < S2 are consecutive snapshots of one address
Consecutive(s1, s2) ==
    /\ s1.address = s2.address
    /\ s1.internal_tx < s2.internal_tx
    /\ ~\E s \in StatusesOf(s1.address) : s1.internal_tx < s.internal_tx /\ s.internal_tx < s2.internal_tx
\* This step is a call of the processor on invocation i that returned
ProcessedStep(i, function_name) ==
    /\ lastCall'.op = "process" /\ lastCall'.id = i /\ lastCall'.outcome = "ok"
    /\ i \in DOMAIN decoded
    /\ FunctionOf(i) = function_name
\* The last call was a call of the processor on invocation i that returned
WasProcessed(i, function_name) ==
    /\ lastCall.op = "process" /\ lastCall.id = i /\ lastCall.outcome = "ok"
    /\ FunctionOf(i) = function_name
ChangesWallet(i) ==
    \/ FunctionOf(i) = "setup" /\ AddressOf(i) # NULL_ADDRESS
    \/ FunctionOf(i) \in {"addOwnerWithThreshold", "removeOwner", "removeOwnerWithThreshold",
                           "swapOwner", "changeThreshold", "changeMasterCopy", "execTransaction"}

\* C1: between two consecutive snapshots of an address the nonce stays or
\* grows by one, and it stays exactly when the later snapshot was not caused
\* by execTransaction.
C1_NonceStep ==
    \A s1 \in safe_statuses, s2 \in safe_statuses :
        Consecutive(s1, s2) =>
            /\ s2.nonce \in {s1.nonce, s1.nonce + 1}
            /\ (s2.nonce = s1.nonce) <=> (FunctionOf(s2.internal_tx) # "execTransaction")

C3_ProcessedMonotonic ==
    [][\A i \in DOMAIN decoded :
          decoded[i].processed => (i \in DOMAIN decoded' /\ decoded'[i].processed)]_vars
\* the transaction of a processed row was indexed again
C3_Witness ==
    /\ lastCall.op = "index" /\ lastCall.outcome = "ok"
    /\ \E i \in DOMAIN decoded : decoded[i].processed /\ TxOf(i) = lastCall.id

\* C4: a call of the processor that raises keeps none of its writes.
C4_AllOrNothing ==
    [][(lastCall'.op = "process" /\ lastCall'.outcome = "raised") =>
          UNCHANGED <<safe_contracts, safe_statuses, multisig_txs, confirmations, decoded>>]_vars
\* the receipt fetch failed after the stale-row delete had removed a row
C4_Witness ==
    /\ lastCall.op = "process" /\ lastCall.outcome = "raised" /\ lastCall.at = "is_failed"
    /\ lastCall.deleted > 0
    /\ ~decoded[lastCall.id].processed

\* C5: processing execTransaction appends one snapshot: the last one of the
\* wallet with the nonce raised by one, failed execution or not.
C5_ExecAppendsNonce ==
    [][\A i \in 1..MaxTraces :
          ProcessedStep(i, "execTransaction") =>
            LET last == last_for_address(safe_statuses, AddressOf(i))
                new == [last EXCEPT !.internal_tx = i, !.nonce = last.nonce + 1]
            IN  /\ new \notin safe_statuses
                /\ safe_statuses' = safe_statuses \cup {new}]_vars
\* an execution recorded as failed was processed
C5_Witness ==
    \E i \in DOMAIN decoded :
        /\ WasProcessed(i, "execTransaction")
        /\ \E t \in multisig_txs : t.ethereum_tx = TxOf(i) /\ t.failed = "true" /\ t.nonce = 1
        /\ last_for_address(safe_statuses, AddressOf(i)).nonce = 2

\* The rows of safe and ethereum_tx
RowsOf(txs, safe, ethereum_tx) == {t \in txs : t.safe = safe /\ t.ethereum_tx = ethereum_tx}
HashAt(i) == ExecHash(AddressOf(i), decoded[i].arguments, last_for_address(safe_statuses, AddressOf(i)).nonce)

\* C6 as stated: processing an execTransaction in a transaction X for which a
\* row of the safe with another hash is stored leaves one row for the safe and X.
C6_Original ==
    [][\A i \in 1..MaxTraces :
          (/\ ProcessedStep(i, "execTransaction")
           /\ \E t \in RowsOf(multisig_txs, AddressOf(i), TxOf(i)) : t.safe_tx_hash # HashAt(i)) =>
            Cardinality(RowsOf(multisig_txs', AddressOf(i), TxOf(i))) = 1]_vars

\* C6: processing an execTransaction in a transaction X deletes the stored
\* rows of the safe and X that have the nonce of the wallet's last snapshot and
\* another hash, and stores the row of the computed hash: no other row of the
\* safe, X and that nonce remains.
C6_StaleRowReplaced ==
    [][\A i \in 1..MaxTraces :
          ProcessedStep(i, "execTransaction") =>
            LET n == last_for_address(safe_statuses, AddressOf(i)).nonce
            IN  /\ \A t \in RowsOf(multisig_txs', AddressOf(i), TxOf(i)) :
                      t.nonce = n => t.safe_tx_hash = HashAt(i)
                /\ \E t \in multisig_txs' : t.safe_tx_hash = HashAt(i)]_vars
\* an execTransaction was processed and its stale-row delete removed a row
C6_Witness ==
    /\ lastCall.op = "process" /\ lastCall.outcome = "ok" /\ lastCall.deleted > 0
    /\ FunctionOf(lastCall.id) = "execTransaction"
    /\ Cardinality(RowsOf(multisig_txs, AddressOf(lastCall.id), TxOf(lastCall.id))) = 1

\* C7: a confirmation whose hash is the hash of a stored transaction is bound
\* to that transaction, whichever row was created first.
C7_ConfirmationsBound ==
    \A c \in confirmations :
        (\E t \in multisig_txs : t.safe_tx_hash = c.multisig_transaction_hash) =>
            c.multisig_transaction = c.multisig_transaction_hash
\* approveHash was processed when no transaction of the hash was stored, the
\* execTransaction processed after it created the transaction, and the
\* confirmation of approveHash is bound to it
C7_Witness ==
    /\ api_calls = 0
    /\ \E a \in DOMAIN decoded, e \in DOMAIN decoded :
          /\ a < e
          /\ decoded[a].processed /\ FunctionOf(a) = "approveHash"
          /\ decoded[e].processed /\ FunctionOf(e) = "execTransaction"
          /\ \E c \in confirmations, t \in multisig_txs :
                /\ c.multisig_transaction_hash = decoded[a].arguments.hashToApprove
                /\ c.ethereum_tx = TxOf(a) /\ c.signature = NoSignature
                /\ t.safe_tx_hash = c.multisig_transaction_hash /\ t.ethereum_tx = TxOf(e)
                /\ c.multisig_transaction = t.safe_tx_hash

\* C8: there is one confirmation at most for a hash and an owner.
C8_OneConfirmationPerOwner ==
    \A c1 \in confirmations, c2 \in confirmations :
        (c1.multisig_transaction_hash = c2.multisig_transaction_hash /\ c1.owner = c2.owner) => c1 = c2
\* an owner approved a hash on chain and signed it in the execution
C8_Witness ==
    \E c \in confirmations :
        /\ c.ethereum_tx # NoTx /\ c.signature # NoSignature
        /\ \E a \in DOMAIN decoded, e \in DOMAIN decoded :
              /\ a < e
              /\ decoded[a].processed /\ FunctionOf(a) = "approveHash"
              /\ decoded[e].processed /\ FunctionOf(e) = "execTransaction"
              /\ decoded[a].arguments.hashToApprove = c.multisig_transaction_hash

\* C9: processing approveHash(h) upserts the confirmation of h and the _from
\* of the trace before: a new row has the transaction of the invocation and
\* no signature, a row without ethereum_tx gets it and keeps the rest, a row
\* with an ethereum_tx stays as it is; no snapshot is stored.
C9_ApproveHashUpsert ==
    [][\A i \in 1..MaxTraces :
          ProcessedStep(i, "approveHash") =>
            LET hash == decoded[i].arguments.hashToApprove
                owner == Traces[i - 1].from
                found == {c \in confirmations : c.multisig_transaction_hash = hash /\ c.owner = owner}
                link == IF \E t \in multisig_txs : t.safe_tx_hash = hash THEN hash ELSE NoHash
            IN  /\ i > 1 /\ TxOf(i - 1) = TxOf(i)
                /\ safe_statuses' = safe_statuses
                /\ multisig_txs' = multisig_txs
                /\ (found = {}) =>
                      confirmations' = confirmations \cup
                          {[multisig_transaction_hash |-> hash, owner |-> owner, ethereum_tx |-> TxOf(i),
                            signature |-> NoSignature, multisig_transaction |-> link]}
                /\ \A c \in found :
                      confirmations' = (confirmations \ {c}) \cup
                          {IF c.ethereum_tx = NoTx THEN [c EXCEPT !.ethereum_tx = TxOf(i)] ELSE c}]_vars
\* approveHash was processed for a confirmation that was stored with a
\* signature and without ethereum_tx
C9_Witness ==
    \E i \in DOMAIN decoded :
        /\ WasProcessed(i, "approveHash")
        /\ \E c \in confirmations :
              /\ c.multisig_transaction_hash = decoded[i].arguments.hashToApprove
              /\ c.owner = Traces[i - 1].from
              /\ c.owner # AddressOf(i)
              /\ c.ethereum_tx = TxOf(i)
              /\ c.signature # NoSignature

\* C10: processing swapOwner stores the owners of the last snapshot with
\* oldOwner replaced by newOwner at its position.
C10_SwapKeepsPosition ==
    [][\A i \in 1..MaxTraces :
          ProcessedStep(i, "swapOwner") =>
            LET last == last_for_address(safe_statuses, AddressOf(i))
                args == decoded[i].arguments
                new == last_for_address(safe_statuses', AddressOf(i))
            IN  new.owners = [k \in 1..Len(last.owners) |->
                                IF last.owners[k] = args.oldOwner THEN args.newOwner
                                ELSE last.owners[k]]]_vars

\* The owner an owner-management invocation takes out of the owners
RemovedOwner(i) ==
    IF FunctionOf(i) = "swapOwner" THEN decoded[i].arguments.oldOwner ELSE decoded[i].arguments.owner
\* This step is a call of the processor on the pending invocation i
CalledStep(i) ==
    /\ lastCall'.op = "process" /\ lastCall'.id = i
    /\ i \in DOMAIN decoded /\ ~decoded[i].processed

\* C11: a call of the processor on removeOwner, removeOwnerWithThreshold or
\* swapOwner that names an owner who is not among the last owners of the
\* wallet marks the invocation processed.
C11_AbsentOwnerProcessed ==
    [][\A i \in 1..MaxTraces :
          (/\ CalledStep(i)
           /\ FunctionOf(i) \in {"removeOwner", "removeOwnerWithThreshold", "swapOwner"}
           /\ last_for_address(safe_statuses, AddressOf(i)) # NoStatus
           /\ ~Contains(last_for_address(safe_statuses, AddressOf(i)).owners, RemovedOwner(i))) =>
            decoded'[i].processed]_vars

\* The function names of the transition table
TableFunctions ==
    {"setup", "addOwnerWithThreshold", "removeOwner", "removeOwnerWithThreshold", "swapOwner",
     "changeThreshold", "changeMasterCopy", "approveHash", "execTransaction",
     "execTransactionFromModule"}
\* This step is a call of the processor on invocation i
AnyCallStep(i) == lastCall'.op = "process" /\ lastCall'.id = i /\ i \in DOMAIN decoded

\* C12: a call of the processor on execTransactionFromModule or on a function
\* outside the table returns, changes no SafeContract, SafeStatus,
\* MultisigTransaction or MultisigConfirmation, marks the invocation
\* processed and nothing else, and returns True for execTransactionFromModule
\* and False for the unknown function.
C12_NoEffectCalls ==
    [][\A i \in 1..MaxTraces :
          (/\ AnyCallStep(i)
           /\ (FunctionOf(i) = "execTransactionFromModule" \/ FunctionOf(i) \notin TableFunctions)) =>
            /\ lastCall'.outcome = "ok"
            /\ UNCHANGED <<safe_contracts, safe_statuses, multisig_txs, confirmations>>
            /\ decoded' = [decoded EXCEPT ![i].processed = TRUE]
            /\ lastCall'.ret = (FunctionOf(i) = "execTransactionFromModule")]_vars
\* an unknown function was processed on a wallet with a snapshot, after an
\* execTransactionFromModule
C12_Witness ==
    /\ lastCall.op = "process" /\ lastCall.outcome = "ok" /\ lastCall.ret = FALSE
    /\ FunctionOf(lastCall.id) = "enableModule" /\ decoded[lastCall.id].processed
    /\ safe_statuses # {}
    /\ \E j \in DOMAIN decoded : FunctionOf(j) = "execTransactionFromModule" /\ decoded[j].processed

\* C13: processing setup from a non-zero address leaves one SafeContract of
\* the address (the one that was there, or a new one) and appends the
\* snapshot with the owners and the threshold of the call, nonce 0 and the
\* `to` of the trace as master copy; for an address without SafeContract it
\* is the only snapshot of the address.
C13_FreshSetup ==
    [][\A i \in 1..MaxTraces :
          (ProcessedStep(i, "setup") /\ AddressOf(i) # NULL_ADDRESS) =>
            LET a == AddressOf(i)
                had == {c \in safe_contracts : c.address = a}
                status == [internal_tx |-> i, address |-> a,
                           owners |-> decoded[i].arguments.owners,
                           threshold |-> decoded[i].arguments.threshold,
                           nonce |-> 0, master_copy |-> Traces[i].to]
            IN  /\ Cardinality({c \in safe_contracts' : c.address = a}) = 1
                /\ (had # {}) => safe_contracts' = safe_contracts
                /\ (had = {}) => /\ safe_contracts \subseteq safe_contracts'
                                 /\ Cardinality(safe_contracts') = Cardinality(safe_contracts) + 1
                                 /\ {s \in safe_statuses' : s.address = a} = {status}
                /\ status \notin safe_statuses
                /\ safe_statuses' = safe_statuses \cup {status}]_vars
\* setup was processed twice for one address, in two transactions
C13_Witness ==
    /\ Cardinality(safe_contracts) = 1
    /\ \E i \in DOMAIN decoded, j \in DOMAIN decoded :
          /\ TxOf(i) # TxOf(j) /\ AddressOf(i) = AddressOf(j) /\ AddressOf(i) # NULL_ADDRESS
          /\ FunctionOf(i) = "setup" /\ decoded[i].processed
          /\ WasProcessed(j, "setup")
          /\ Cardinality(StatusesOf(AddressOf(i))) = 2

\* C14: a call of the processor on a setup whose contract address is the
\* zero address returns, creates no SafeContract and no SafeStatus, and marks
\* the invocation processed.
C14_ZeroAddressSetup ==
    [][\A i \in 1..MaxTraces :
          (AnyCallStep(i) /\ FunctionOf(i) = "setup" /\ AddressOf(i) = NULL_ADDRESS) =>
            /\ lastCall'.outcome = "ok"
            /\ UNCHANGED <<safe_contracts, safe_statuses, multisig_txs, confirmations>>
            /\ decoded'[i].processed]_vars
\* a setup from the zero address was processed
C14_Witness ==
    /\ lastCall.op = "process" /\ lastCall.outcome = "ok"
    /\ FunctionOf(lastCall.id) = "setup" /\ AddressOf(lastCall.id) = NULL_ADDRESS
    /\ decoded[lastCall.id].processed
    /\ \A s \in safe_statuses : s.address # NULL_ADDRESS

\* C15: processing execTransaction when a row of the computed hash is stored:
\* a row without ethereum_tx gets the transaction, the failed flag and the
\* signatures of the invocation and keeps its other fields, a row with an
\* ethereum_tx stays as it is, and no row is added.
C15_FillIn ==
    [][\A i \in 1..MaxTraces :
          ProcessedStep(i, "execTransaction") =>
            \A t \in {u \in multisig_txs : u.safe_tx_hash = HashAt(i)} :
                /\ {u \in multisig_txs' : u.safe_tx_hash = HashAt(i)} =
                      {IF t.ethereum_tx = NoTx
                          THEN [t EXCEPT !.ethereum_tx = TxOf(i),
                                         !.failed = IF HashAt(i) \in Receipt(TxOf(i)) THEN "true" ELSE "false",
                                         !.signatures = decoded[i].arguments.signatures]
                          ELSE t}
                /\ Cardinality(multisig_txs') <= Cardinality(multisig_txs)]_vars
\* a row submitted through the API was filled in by an execution, and a later
\* execution of the same hash in another transaction was processed
C15_Witness ==
    \E j \in DOMAIN decoded, t \in multisig_txs :
        /\ WasProcessed(j, "execTransaction")
        /\ t.origin = "api" /\ t.ethereum_tx # NoTx /\ t.ethereum_tx # TxOf(j)
        /\ t.failed = "false" /\ t.signatures = decoded[j].arguments.signatures
        /\ t.safe_tx_hash = ExecHash(AddressOf(j), decoded[j].arguments, t.nonce)
        /\ last_for_address(safe_statuses, AddressOf(j)).nonce = t.nonce + 1

\* The confirmations of a hash and an owner
ConfirmationsOf(confs, hash, owner) ==
    {c \in confs : c.multisig_transaction_hash = hash /\ c.owner = owner}

\* C16: after execTransaction is processed there is one confirmation for the
\* computed hash and each owner recovered from the signatures of the
\* invocation, it holds the signature of the invocation (a row that was
\* stored keeps its ethereum_tx), and a row created by the step is bound to
\* the transaction of the hash and has no ethereum_tx.
C16_ExecConfirmations ==
    [][\A i \in 1..MaxTraces :
          ProcessedStep(i, "execTransaction") =>
            LET h == HashAt(i)
                sigs == decoded[i].arguments.signatures.sigs
            IN  \A k \in 1..Len(sigs) :
                  LET o == RecoverOwner(sigs[k], h)
                      before == ConfirmationsOf(confirmations, h, o)
                      after == ConfirmationsOf(confirmations', h, o)
                  IN  /\ Cardinality(after) = 1
                      /\ \A c \in after :
                            /\ c.signature = sigs[k]
                            /\ (before = {}) => (c.multisig_transaction = h /\ c.ethereum_tx = NoTx)
                            /\ \A b \in before : c.ethereum_tx = b.ethereum_tx]_vars
\* an execution signed by an owner was processed after the owner's approveHash
\* had stored the confirmation without signature
C16_Witness ==
    \E a \in DOMAIN decoded, e \in DOMAIN decoded :
        /\ a < e
        /\ decoded[a].processed /\ FunctionOf(a) = "approveHash"
        /\ WasProcessed(e, "execTransaction")
        /\ \E c \in confirmations :
              /\ c.multisig_transaction_hash = decoded[a].arguments.hashToApprove
              /\ c.ethereum_tx = TxOf(a)
              /\ c.signature \in {decoded[e].arguments.signatures.sigs[k] :
                                      k \in 1..Len(decoded[e].arguments.signatures.sigs)}
              /\ c.owner = c.signature.signer

\* C17: the signature of every confirmation that has one recovers, against
\* the hash of the confirmation, to the owner of the confirmation.
C17_SignatureRecoversOwner ==
    \A c \in confirmations :
        (c.signature # NoSignature) =>
            RecoverOwner(c.signature, c.multisig_transaction_hash) = c.owner
\* a confirmation is stored whose signature was made over another hash than
\* the one it was recovered against
C17_Witness ==
    \E c \in confirmations :
        /\ c.signature # NoSignature
        /\ c.signature.hash # c.multisig_transaction_hash
        /\ c.owner = Unrelated(c.signature.signer)

\* C18: the hash of every MultisigTransaction with an ethereum_tx is the hash
\* of its own safe, payload, base_gas and nonce under the version detected
\* for an execTransaction of that payload, processed for the safe in that
\* transaction.
C18_HashOfOwnFields ==
    \A t \in multisig_txs :
        (t.ethereum_tx # NoTx) =>
            \E i \in DOMAIN decoded :
                /\ decoded[i].processed /\ FunctionOf(i) = "execTransaction"
                /\ TxOf(i) = t.ethereum_tx /\ AddressOf(i) = t.safe
                /\ decoded[i].arguments.payload = t.payload
                /\ SafeTxHash(t.safe, t.payload, t.base_gas, t.nonce,
                              SafeVersion(decoded[i].arguments)) = t.safe_tx_hash
\* a row submitted through the API was filled in by an execution of version
\* 1.0.0, and an execution of version 0.0.1 stored a row
C18_Witness ==
    \E t1 \in multisig_txs, t2 \in multisig_txs :
        /\ t1.origin = "api" /\ t1.ethereum_tx # NoTx /\ t1.safe_tx_hash.version = "1.0.0"
        /\ t2.ethereum_tx # NoTx /\ t2.safe_tx_hash.version = "0.0.1"

\* C19: a run of the indexer on a transaction that is indexed already leaves
\* the ledger as it is.
C19_ReplayIdempotent ==
    [][(lastCall'.op = "index" /\ lastCall'.outcome = "ok" /\ lastCall'.id \in ethereum_txs) =>
          UNCHANGED <<ethereum_txs, internal_txs, decoded, safe_contracts, safe_statuses,
                      multisig_txs, confirmations>>]_vars
\* a transaction was indexed again after an execTransaction in it was processed
C19_Witness ==
    /\ lastCall.op = "index" /\ lastCall.outcome = "ok"
    /\ \E s \in safe_statuses :
          /\ TxOf(s.internal_tx) = lastCall.id
          /\ FunctionOf(s.internal_tx) = "execTransaction" /\ s.nonce = 1
          /\ decoded[s.internal_tx].processed

\* The traces of a transaction on which decoding fails with this error
FailsWith(i, error) == can_be_decoded(Traces[i]) /\ decode_transaction(Traces[i]).error = error

\* C20: a run of the indexer whose RPC calls succeed, on a transaction where
\* no decoding fails otherwise than with CannotDecode, returns; every trace of
\* the transaction is stored, the traces that fail with CannotDecode have no
\* InternalTxDecoded row, and the traces that decode have one.
C20_CannotDecodeSkipped ==
    [][\A tx \in 1..NumTx :
          (/\ lastCall'.op = "index" /\ lastCall'.id = tx
           /\ lastCall'.at # "trace_transaction"
           /\ \A i \in TracesOfTx(tx) : ~FailsWith(i, "UnexpectedProblemDecoding")) =>
            /\ lastCall'.outcome = "ok"
            /\ \A i \in TracesOfTx(tx) :
                  /\ i \in internal_txs'
                  /\ FailsWith(i, "CannotDecode") => i \notin DOMAIN decoded'
                  /\ FailsWith(i, "None") =>
                        (i \in DOMAIN decoded' /\ decoded'[i].function_name = Traces[i].fn)]_vars
\* a transaction was indexed in which a trace that fails with CannotDecode is
\* followed by a trace that decodes
C20_Witness ==
    /\ lastCall.op = "index" /\ lastCall.outcome = "ok"
    /\ \E i \in TracesOfTx(lastCall.id), j \in TracesOfTx(lastCall.id) :
          /\ i < j
          /\ FailsWith(i, "CannotDecode") /\ i \in internal_txs /\ i \notin DOMAIN decoded
          /\ j \in DOMAIN decoded /\ decoded[j].function_name = "setup"

\* The transaction is stored with all its traces, or nothing of it is stored
AllOrNone(tx) ==
    IF tx \in ethereum_txs
    THEN /\ TracesOfTx(tx) \subseteq internal_txs
         /\ \A i \in TracesOfTx(tx) : FailsWith(i, "None") => i \in DOMAIN decoded
    ELSE /\ TracesOfTx(tx) \cap internal_txs = {}
         /\ TracesOfTx(tx) \cap DOMAIN decoded = {}

\* C21: a run of the indexer that raises keeps none of its writes, and after
\* every step each transaction is stored with all its traces or not at all.
C21_IndexerAllOrNothing ==
    [][/\ (lastCall'.op = "index" /\ lastCall'.outcome = "raised") =>
              UNCHANGED <<ethereum_txs, internal_txs, decoded>>
       /\ \A tx \in TxIds : AllOrNone(tx)']_vars
\* decoding failed on a trace of a transaction after an earlier trace of the
\* transaction had been stored and decoded
C21_Witness ==
    /\ lastCall.op = "index" /\ lastCall.outcome = "raised" /\ lastCall.at = "decode_transaction"
    /\ lastCall.id \notin ethereum_txs
    /\ \E i \in TracesOfTx(lastCall.id), j \in TracesOfTx(lastCall.id) :
          /\ i < j
          /\ FailsWith(i, "None") /\ i \notin internal_txs /\ i \notin DOMAIN decoded
          /\ FailsWith(j, "UnexpectedProblemDecoding")

\* The first trace of the transaction on which the decoder fails otherwise
\* than with CannotDecode, 0 when there is none
FirstFatal(tx) ==
    LET fatal == {i \in TracesOfTx(tx) :
                    can_be_decoded(Traces[i]) /\
                    decode_transaction(Traces[i]).error \notin {"None", "CannotDecode"}}
    IN  IF fatal = {} THEN 0 ELSE CHOOSE i \in fatal : \A j \in fatal : i <= j

\* C22: the decoder fails with CannotDecode exactly on data whose selector is
\* in no ABI or that is shorter than 4 bytes, and every other failure that
\* leaves the decoder in a run of the indexer is UnexpectedProblemDecoding.
C22_DecoderClassification ==
    [][\A tx \in 1..NumTx :
          (lastCall'.op = "index" /\ lastCall'.id = tx /\ lastCall'.at # "trace_transaction") =>
            /\ \A i \in TracesOfTx(tx) :
                  can_be_decoded(Traces[i]) =>
                    ((decode_transaction(Traces[i]).error = "CannotDecode")
                        <=> (Traces[i].data \in {"noselector", "short"}))
            /\ (lastCall'.outcome = "raised") =>
                  decode_transaction(Traces[FirstFatal(tx)]).error = "UnexpectedProblemDecoding"]_vars

\* C23: no step lowers the cursor of a stream; a cursor moves only in a
\* window of its stream that succeeded, and a setup processed for a wallet
\* that has a SafeContract leaves its erc20_block_number.
C23_CursorMonotonic ==
    [][\A stream \in Streams :
          LET before == CursorOf(safe_contracts, cursors, stream, "s1")
              after == CursorOf(safe_contracts', cursors', stream, "s1")
          IN  /\ after >= before
              /\ (before # 0 /\ after # before) =>
                    /\ lastCall'.op = "window" /\ lastCall'.outcome = "ok" /\ lastCall'.at = stream
                    /\ after = lastCall'.id + 1]_vars
\* a setup was processed for a wallet whose erc20 cursor a window had moved
\* past the block of the setup
C23_Witness ==
    /\ lastCall.op = "process" /\ lastCall.outcome = "ok"
    /\ FunctionOf(lastCall.id) = "setup"
    /\ CursorOf(safe_contracts, cursors, "erc20_block_number", AddressOf(lastCall.id))
          > BlockOf(TxOf(lastCall.id))
    /\ cursors["tx_block_number"] > 1

\* C24: every collectible get_collectibles returns is a token of an event
\* whose ownerOf answers the safe; a token whose ownerOf answers another
\* address or fails is not returned.
C24_OnlyOwnedTokens ==
    [][(lastCall'.op = "get_collectibles") =>
          \A j \in 1..Len(lastCall'.ret) :
              LET token == [address |-> lastCall'.ret[j].address, tokenId |-> lastCall'.ret[j].id]
              IN  /\ OwnerOf(token) = lastCall'.at
                  /\ \E k \in 1..Len(chain.events) : TokenOf(chain.events[k]) = token]_vars
\* collectibles were returned for a history with a token the safe owns, a
\* token of another owner and a token whose ownerOf failed
C24_Witness ==
    /\ lastCall.op = "get_collectibles" /\ Len(lastCall.ret) = 2
    /\ Len(chain.events) = 3
    /\ \E t \in Tokens : OwnerOf(t) \in {"other", "None"} /\ \E k \in 1..3 : TokenOf(chain.events[k]) = t

\* C25: every collectible get_collectibles returns carries the tokenURI of
\* its own token.
C25_OwnTokenURI ==
    [][(lastCall'.op = "get_collectibles") =>
          \A j \in 1..Len(lastCall'.ret) :
              lastCall'.ret[j].uri =
                  TokenURI([address |-> lastCall'.ret[j].address, tokenId |-> lastCall'.ret[j].id])]_vars

\* C26: a submission for a safe and a nonce is accepted while no transaction
\* of that safe with that nonce is executed, and then the ledger holds exactly
\* one MultisigTransaction with the submitted hash and no other new row; once
\* a transaction of the safe with the nonce is executed, the same hash and any
\* other transaction with the nonce are rejected and nothing is persisted,
\* while the next nonce is still accepted.
ExecutedNonce(safe, nonce) ==
    \E t \in multisig_txs : t.safe = safe /\ t.nonce = nonce /\ t.ethereum_tx # NoTx
C26_SubmitUntilExecuted ==
    [][\A payload \in SubmittedPayloads, nonce \in SubmittedNonces, signer \in ApiSigners :
        PostUpTo(MaxPosts, "s1", payload, nonce, signer) =>
            LET hash == ApiHash("s1", payload, nonce)
            IN  IF ExecutedNonce("s1", nonce)
                THEN /\ lastCall'.outcome = "rejected"
                     /\ multisig_txs' = multisig_txs
                     /\ confirmations' = confirmations
                ELSE /\ lastCall'.outcome = "ok"
                     /\ Cardinality({t \in multisig_txs' : t.safe_tx_hash = hash}) = 1
                     /\ multisig_txs \subseteq multisig_txs'
                     /\ \A t \in multisig_txs' \ multisig_txs : t.safe_tx_hash = hash
                     /\ (\E t \in multisig_txs : t.safe_tx_hash = hash) => multisig_txs' = multisig_txs]_vars
C26_Witness ==
    /\ lastCall.op = "api" /\ lastCall.outcome = "rejected"
    /\ api_calls = MaxPosts
    /\ ExecutedNonce("s1", 0)
    /\ \E t \in multisig_txs : t.nonce = 1 /\ t.origin = "api" /\ t.ethereum_tx = NoTx
    /\ \E t \in multisig_txs : t.nonce = 0 /\ t.payload = "p2" /\ t.ethereum_tx = NoTx

\* C27: a removal request takes exactly the Safe of the URL's address from
\* the device: afterwards that Safe is not among the device's safes and all
\* the others still are (so the safes are unchanged when the address is
\* none of theirs).
C27_RemovesNamedSafe ==
    [][\A address \in UrlAddresses :
        PerformDestroy(address) => device_safes' = device_safes \ {address}]_vars

\* C28: processing execTransaction stores the transaction under the hash of
\* version 1.0.0 when the gas argument is named baseGas and of version 0.0.1
\* otherwise, with the value of that argument as base_gas and with the nonce
\* the wallet's last snapshot had before the call.
C28_VersionByGasKey ==
    [][\A i \in 1..MaxTraces :
          ProcessedStep(i, "execTransaction") =>
            LET arguments == decoded[i].arguments
                last == last_for_address(safe_statuses, AddressOf(i))
                version == IF arguments.gasKey = "baseGas" THEN "1.0.0" ELSE "0.0.1"
                hash == SafeTxHash(AddressOf(i), arguments.payload, arguments.gas, last.nonce, version)
            IN  /\ \E t \in multisig_txs' :
                      /\ t.safe_tx_hash = hash
                      /\ t.base_gas = arguments.gas /\ t.nonce = last.nonce
                /\ \A t \in multisig_txs' \ multisig_txs : t.safe_tx_hash = hash
                /\ last_for_address(safe_statuses', AddressOf(i)).nonce = last.nonce + 1]_vars
\* executions of both versions were processed, the later one at nonce 1
C28_Witness ==
    /\ \E i \in DOMAIN decoded :
          /\ WasProcessed(i, "execTransaction")
          /\ decoded[i].arguments.gasKey = "dataGas" /\ decoded[i].arguments.gas = 7
          /\ \E t \in multisig_txs :
                /\ t.ethereum_tx = TxOf(i) /\ t.nonce = 1 /\ t.base_gas = 7
                /\ t.safe_tx_hash.version = "0.0.1"
    /\ \E t \in multisig_txs : t.nonce = 0 /\ t.base_gas = 5 /\ t.safe_tx_hash.version = "1.0.0"

\* The txHash arguments of the failure events in the receipt of tx
FailureEvents(tx) == {Traces[i].log : i \in TracesOfTx(tx)} \ {NoHash, Undecodable}
\* C29: a MultisigTransaction with an ethereum_tx is stored as failed exactly
\* when the receipt of that transaction has a failure event whose txHash is
\* the hash of the row; failure events of other hashes and logs that are no
\* failure events do not make it failed.
C29_FailedFlag ==
    \A t \in multisig_txs :
        (t.ethereum_tx # NoTx) =>
            /\ t.failed \in {"true", "false"}
            /\ (t.failed = "true") <=> (t.safe_tx_hash \in FailureEvents(t.ethereum_tx))
\* a submitted row was filled in as failed, and a row of the same transaction
\* is not failed next to that failure event and a log that is no failure event
C29_Witness ==
    \E t1 \in multisig_txs, t2 \in multisig_txs :
        /\ t1.origin = "api" /\ t1.ethereum_tx # NoTx /\ t1.failed = "true"
        /\ t2.ethereum_tx = t1.ethereum_tx /\ t2.failed = "false"
        /\ \E i \in TracesOfTx(t2.ethereum_tx) :
              /\ i \in DOMAIN decoded /\ decoded[i].processed
              /\ Traces[i].log = Undecodable
              /\ decoded[i].arguments.payload = t2.payload

\* The fields of a snapshot the table names for the function of invocation i
\* are set as the table says
NamedFields(i, last, new) ==
    LET arguments == decoded[i].arguments
    IN  CASE FunctionOf(i) = "addOwnerWithThreshold" ->
                /\ new.owners = Append(last.owners, arguments.owner)
                /\ new.threshold = arguments.threshold
                /\ new.master_copy = last.master_copy
          [] FunctionOf(i) \in {"removeOwner", "removeOwnerWithThreshold"} ->
                /\ new.owners = ListRemove(last.owners, arguments.owner)
                /\ new.threshold = arguments.threshold
                /\ new.master_copy = last.master_copy
          [] FunctionOf(i) = "swapOwner" ->
                /\ new.threshold = last.threshold
                /\ new.master_copy = last.master_copy
          [] FunctionOf(i) = "changeThreshold" ->
                /\ new.owners = last.owners
                /\ new.threshold = arguments.threshold
                /\ new.master_copy = last.master_copy
          [] FunctionOf(i) = "changeMasterCopy" ->
                /\ new.owners = last.owners
                /\ new.threshold = last.threshold
                /\ new.master_copy = arguments.masterCopy
\* C30: a call of the processor on an invocation of addOwnerWithThreshold,
\* removeOwner, removeOwnerWithThreshold, swapOwner, changeThreshold or
\* changeMasterCopy of a wallet that has a snapshot appends exactly one
\* snapshot, which differs from the wallet's last one only in the fields the
\* table names for the function; nonce and address stay.
C30_ManagementFrame ==
    [][\A i \in 1..MaxTraces :
          (/\ CalledStep(i)
           /\ FunctionOf(i) \in {"addOwnerWithThreshold", "removeOwner", "removeOwnerWithThreshold",
                                  "swapOwner", "changeThreshold", "changeMasterCopy"}
           /\ StatusesOf(AddressOf(i)) # {}) =>
            LET last == last_for_address(safe_statuses, AddressOf(i))
            IN  \E new \in safe_statuses' \ safe_statuses :
                    /\ safe_statuses' = safe_statuses \cup {new}
                    /\ new.internal_tx = i
                    /\ new.address = last.address /\ new.nonce = last.nonce
                    /\ NamedFields(i, last, new)]_vars

\* C31: a call of the processor modifies and deletes no SafeStatus: every
\* snapshot stored before the call is stored after it, the snapshot that was
\* the wallet's last one included; what the call adds is one snapshot keyed
\* by the invocation, whose key no snapshot had before.
C31_AppendOnly ==
    [][\A i \in 1..MaxTraces :
          AnyCallStep(i) =>
            /\ safe_statuses \subseteq safe_statuses'
            /\ \A s \in safe_statuses' \ safe_statuses :
                  /\ s.internal_tx = i
                  /\ safe_statuses' = safe_statuses \cup {s}
                  /\ ~\E o \in safe_statuses : o.internal_tx = i]_vars
\* an execution was processed after a swap of owners: three snapshots of the
\* wallet are stored, the first one as the setup stored it
C31_Witness ==
    \E i \in DOMAIN decoded :
        /\ WasProcessed(i, "execTransaction")
        /\ Cardinality(StatusesOf("s1")) >= 3
        /\ \E s \in StatusesOf("s1") : s.internal_tx = 1 /\ s.owners = <<"A", "B">> /\ s.nonce = 0
        /\ \E s \in StatusesOf("s1") : s.internal_tx = i /\ s.nonce = 1 /\ s.owners = <<"B", "C">>

\* C32: after every run of the indexer an InternalTx has an InternalTxDecoded
\* row exactly when its trace is a CALL or DELEGATECALL with data and the
\* data decodes; rows belong to stored InternalTxs, one per InternalTx, and a
\* row the run created is not processed.
C32_DecodedIffDecodable ==
    [][(lastCall'.op = "index") =>
          /\ \A i \in internal_txs' :
                (i \in DOMAIN decoded') <=>
                    /\ Traces[i].call_type \in {"CALL", "DELEGATECALL"}
                    /\ Traces[i].data # "empty"
                    /\ decode_function_input(Traces[i].data).raises = "None"
          /\ (DOMAIN decoded') \subseteq internal_txs'
          /\ \A i \in DOMAIN decoded' : decoded'[i].internal_tx = i
          /\ \A i \in (DOMAIN decoded') \ (DOMAIN decoded) : ~decoded'[i].processed]_vars
\* a setup, a call of an unknown selector, a plain transfer and a creation
\* are indexed: only the setup has a row
C32_Witness ==
    /\ lastCall.op = "index" /\ lastCall.outcome = "ok"
    /\ \E i \in internal_txs : i \in DOMAIN decoded /\ Traces[i].fn = "setup"
    /\ \E i \in internal_txs : i \notin DOMAIN decoded /\ Traces[i].data = "noselector"
    /\ \E i \in internal_txs : i \notin DOMAIN decoded /\ Traces[i].data = "empty"
    /\ \E i \in internal_txs : i \notin DOMAIN decoded /\ Traces[i].call_type = "CREATE"

\* The ledger after the processor was called on invocation i and then on j
AfterBoth(i, rpc_i, j, rpc_j) ==
    process_decoded_transaction(process_decoded_transaction(Ledger, i, rpc_i).db, j, rpc_j).db
DeletedRows == {t \in multisig_txs : ~\E u \in multisig_txs' : u.safe_tx_hash = t.safe_tx_hash}
\* C34: a call of the processor on execTransaction deletes only rows of the
\* invocation's safe and Ethereum transaction that have the nonce of the
\* wallet's last snapshot and another hash than the computed one; rows
\* without ethereum_tx, rows of other Ethereum transactions and rows of other
\* safes stay as they are.
C34_StaleDeleteFrame ==
    [][\A i \in 1..MaxTraces :
          (AnyCallStep(i) /\ FunctionOf(i) = "execTransaction") =>
            LET n == last_for_address(safe_statuses, AddressOf(i)).nonce
            IN  /\ \A t \in DeletedRows :
                      /\ t.safe = AddressOf(i) /\ t.ethereum_tx = TxOf(i)
                      /\ t.nonce = n /\ t.safe_tx_hash # HashAt(i)
                /\ \A t \in multisig_txs :
                      (\/ t.ethereum_tx = NoTx /\ t.safe_tx_hash # HashAt(i)
                       \/ t.ethereum_tx \notin {NoTx, TxOf(i)}
                       \/ t.safe # AddressOf(i)) => t \in multisig_txs']_vars
\* the stale-row delete removed a row while a submitted row of the same safe
\* and nonce without ethereum_tx was stored, and that row is still stored
C34_Witness ==
    /\ lastCall.op = "process" /\ lastCall.outcome = "ok" /\ lastCall.deleted > 0
    /\ FunctionOf(lastCall.id) = "execTransaction"
    /\ \E t \in multisig_txs :
          /\ t.origin = "api" /\ t.ethereum_tx = NoTx /\ t.safe = AddressOf(lastCall.id)
          /\ t.nonce = 0
    /\ \E t \in multisig_txs : t.ethereum_tx = TxOf(lastCall.id) /\ t.nonce = 0

\* C35: a call of the processor on removeOwner or removeOwnerWithThreshold
\* that names an owner who is not among the last owners of the wallet appends
\* one snapshot: the last one with the threshold of the invocation, its
\* owners, nonce and master_copy as they were.
C35_AbsentOwnerRemoval ==
    [][\A i \in 1..MaxTraces :
          (/\ CalledStep(i)
           /\ FunctionOf(i) \in {"removeOwner", "removeOwnerWithThreshold"}
           /\ StatusesOf(AddressOf(i)) # {}
           /\ ~Contains(last_for_address(safe_statuses, AddressOf(i)).owners,
                        decoded[i].arguments.owner)) =>
            LET last == last_for_address(safe_statuses, AddressOf(i))
                new == [internal_tx |-> i, address |-> last.address, owners |-> last.owners,
                        threshold |-> decoded[i].arguments.threshold, nonce |-> last.nonce,
                        master_copy |-> last.master_copy]
            IN  /\ new \notin safe_statuses
                /\ safe_statuses' = safe_statuses \cup {new}]_vars
\* removeOwnerWithThreshold of D with threshold 2 was processed on the wallet
\* of A and B with threshold 1
C35_Witness ==
    \E i \in DOMAIN decoded :
        /\ WasProcessed(i, "removeOwnerWithThreshold")
        /\ decoded[i].arguments.owner = "D"
        /\ \E s \in StatusesOf("s1") : s.internal_tx = i /\ s.owners = <<"A", "B">> /\ s.threshold = 2
        /\ \E s \in StatusesOf("s1") : s.internal_tx = i - 1 /\ s.threshold = 1

\* C36: a call of the processor on an owner-management invocation or an
\* execTransaction of an address that has no snapshot fails: no SafeContract,
\* SafeStatus, MultisigTransaction or MultisigConfirmation is created or
\* changed and the invocation stays unprocessed.
C36_NoStatusFails ==
    [][\A i \in 1..MaxTraces :
          (/\ AnyCallStep(i)
           /\ FunctionOf(i) \in {"addOwnerWithThreshold", "removeOwner", "removeOwnerWithThreshold",
                                  "swapOwner", "changeThreshold", "changeMasterCopy",
                                  "execTransaction"}
           /\ StatusesOf(AddressOf(i)) = {}) =>
            /\ lastCall'.outcome = "raised"
            /\ UNCHANGED <<safe_contracts, safe_statuses, multisig_txs, confirmations, decoded>>
            /\ ~decoded'[i].processed]_vars
\* an execTransaction of s2 was called and failed while s1 has a snapshot
C36_Witness ==
    /\ lastCall.op = "process" /\ lastCall.outcome = "raised"
    /\ lastCall.id \in DOMAIN decoded
    /\ FunctionOf(lastCall.id) = "execTransaction" /\ AddressOf(lastCall.id) = "s2"
    /\ StatusesOf("s1") # {} /\ StatusesOf("s2") = {}
    /\ multisig_txs = {} /\ ~decoded[lastCall.id].processed

\* C37: for every safe and every nonce at most one MultisigTransaction has an
\* ethereum_tx.
C37_OneExecutedPerNonce ==
    \A t \in multisig_txs, u \in multisig_txs :
        (/\ t.ethereum_tx # NoTx /\ u.ethereum_tx # NoTx
         /\ t.safe = u.safe /\ t.nonce = u.nonce) => t = u

\* C38: a call of the processor leaves the ethereum_tx, the failed flag and
\* the signatures of every MultisigTransaction that has an ethereum_tx as
\* they are.
C38_ExecutionKept ==
    [][\A i \in 1..MaxTraces :
          AnyCallStep(i) =>
            \A t \in multisig_txs, u \in multisig_txs' :
                (t.ethereum_tx # NoTx /\ u.safe_tx_hash = t.safe_tx_hash) =>
                    /\ u.ethereum_tx = t.ethereum_tx
                    /\ u.failed = t.failed
                    /\ u.signatures = t.signatures]_vars
\* an execTransaction was processed whose hash was stored already with the
\* ethereum_tx of an earlier transaction
C38_Witness ==
    \E i \in DOMAIN decoded :
        /\ WasProcessed(i, "execTransaction")
        /\ \E s \in StatusesOf(AddressOf(i)) : s.internal_tx = i /\ s.nonce = 1
        /\ \E t \in multisig_txs :
              /\ t.safe_tx_hash = ExecHash(AddressOf(i), decoded[i].arguments, 0)
              /\ t.ethereum_tx # NoTx /\ t.ethereum_tx # TxOf(i)

\* C39: with retries in the order of the queue and RPC calls that succeed in
\* the end, every pending invocation of a wallet that has a snapshot is
\* processed at last, whatever its function and arguments.
C39_QueueProgress ==
    \A i \in 1..MaxTraces :
        (i \in DOMAIN decoded /\ ~decoded[i].processed /\ StatusesOf(AddressOf(i)) # {})
            ~> (i \in DOMAIN decoded /\ decoded[i].processed)

====
